---- MODULE Spec2Model ----
(***************************************************************************)
(* MySQL MCP server (src/src/index.js): the permission gate, the write     *)
(* path with its version-history backup, and mysql_rollback_to_version,    *)
(* over a small MySQL database and the SQLite version_history ledger.      *)
(*                                                                         *)
(* SQL text is a sequence of tokens.  Two neighbouring tokens are one      *)
(* space apart; the token WS stands for any further whitespace between     *)
(* them, COMMENT for a comment.  The server's text tests (startsWith,      *)
(* includes, the regular expressions) are computed on the tokens, and      *)
(* MySQL's own reading of the same text is Parse.                          *)
(***************************************************************************)
EXTENDS Integers, Sequences, FiniteSets, Bags, TLC

MaxCalls == 2
MaxRows == 3

WS == "  "
COMMENT == "/*c*/"
COMMENT_WHERE == "/*where*/"
ISO_T == "2025-07-10T16:32:07"
ISO_SP == "2025-07-10 16:32:07"

Vals == {"a", "b", ISO_T, ISO_SP}
ValOrder == <<"a", "b", ISO_T, ISO_SP>>

Range(s) == {s[i] : i \in 1..Len(s)}

------------------------------------------------------------------------------
(* String helpers of JavaScript, on token sequences.                        *)

CasePairs ==
  { <<"delete", "DELETE">>, <<"from", "FROM">>, <<"where", "WHERE">>,
    <<"t", "T">> }

toUpperCaseTok(tok) ==
  IF \E p \in CasePairs : p[1] = tok
  THEN (CHOOSE p \in CasePairs : p[1] = tok)[2]
  ELSE tok

toLowerCaseTok(tok) ==
  IF \E p \in CasePairs : p[2] = tok
  THEN (CHOOSE p \in CasePairs : p[2] = tok)[1]
  ELSE tok

toUpperCase(q) == [i \in 1..Len(q) |-> toUpperCaseTok(q[i])]

RECURSIVE trimStart(_)
trimStart(q) ==
  IF q # << >> /\ Head(q) = WS THEN trimStart(Tail(q)) ELSE q

RECURSIVE trimEnd(_)
trimEnd(q) ==
  IF q # << >> /\ q[Len(q)] = WS THEN trimEnd(SubSeq(q, 1, Len(q) - 1)) ELSE q

trim(q) == trimEnd(trimStart(q))

\* String.prototype.startsWith(kw), kw one keyword
startsWith(q, kw) == q # << >> /\ q[1] = kw

\* String.prototype.includes('K1 K2'): the two keywords one space apart
includes2(q, k1, k2) ==
  \E i \in 1..(Len(q) - 1) : q[i] = k1 /\ q[i + 1] = k2

\* String.prototype.includes('K')
includes1(q, k) == \E i \in 1..Len(q) : q[i] = k

\* the text with every run of whitespace read as one separator (regex \s+)
SquashWS(q) == SelectSeq(q, LAMBDA tok : tok # WS)

\* \w+ : an identifier
IsWord(tok) == tok \in {"T", "t"}

------------------------------------------------------------------------------
(* checkQueryPermissions: TRUE when the query passes, FALSE when it throws. *)

IsDeleteClass(nq) ==
  \/ startsWith(nq, "DELETE")
  \/ includes2(nq, "DROP", "TABLE")
  \/ includes2(nq, "DROP", "DATABASE")
  \/ includes1(nq, "TRUNCATE")

IsUpdateClass(nq) ==
  \/ startsWith(nq, "UPDATE")
  \/ includes2(nq, "ALTER", "TABLE")
  \/ includes2(nq, "MODIFY", "COLUMN")
  \/ includes2(nq, "ADD", "COLUMN")
  \/ includes2(nq, "DROP", "COLUMN")

IsInsertClass(nq) ==
  \/ startsWith(nq, "INSERT")
  \/ includes2(nq, "CREATE", "TABLE")
  \/ includes2(nq, "CREATE", "DATABASE")
  \/ includes2(nq, "CREATE", "INDEX")

checkQueryPermissions(perm, query) ==
  LET normalizedQuery == toUpperCase(trim(query)) IN
  /\ IsDeleteClass(normalizedQuery) => perm.allowDelete
  /\ IsUpdateClass(normalizedQuery) => perm.allowUpdate
  /\ IsInsertClass(normalizedQuery) => perm.allowInsert

------------------------------------------------------------------------------
(* extractTableFromQuery: the table name in lower case, or "null".          *)

\* first position where  (DELETE\s+FROM|UPDATE|INSERT\s+INTO)\s+(\w+)  matches
DmlMatchAt(s, i) ==
  \/ /\ i + 2 <= Len(s)
     /\ \/ s[i] = "DELETE" /\ s[i + 1] = "FROM"
        \/ s[i] = "INSERT" /\ s[i + 1] = "INTO"
     /\ IsWord(s[i + 2])
  \/ /\ i + 1 <= Len(s)
     /\ s[i] = "UPDATE"
     /\ IsWord(s[i + 1])

DmlTableAt(s, i) == IF s[i] = "UPDATE" THEN s[i + 1] ELSE s[i + 2]

DropMatchAt(s, i) ==
  /\ i + 1 <= Len(s)
  /\ s[i] = "DROP" /\ s[i + 1] = "TABLE"
  /\ \/ i + 4 <= Len(s) /\ s[i + 2] = "IF" /\ s[i + 3] = "EXISTS" /\ IsWord(s[i + 4])
     \/ i + 2 <= Len(s) /\ IsWord(s[i + 2])

DropTableAt(s, i) ==
  IF i + 4 <= Len(s) /\ s[i + 2] = "IF" /\ s[i + 3] = "EXISTS" /\ IsWord(s[i + 4])
  THEN s[i + 4] ELSE s[i + 2]

TruncMatchAt(s, i) ==
  /\ s[i] = "TRUNCATE"
  /\ \/ i + 2 <= Len(s) /\ s[i + 1] = "TABLE" /\ IsWord(s[i + 2])
     \/ i + 1 <= Len(s) /\ IsWord(s[i + 1])

TruncTableAt(s, i) ==
  IF i + 2 <= Len(s) /\ s[i + 1] = "TABLE" /\ IsWord(s[i + 2])
  THEN s[i + 2] ELSE s[i + 1]

\* the leftmost of the positions where a regex matches
FirstAt(positions) == CHOOSE i \in positions : \A j \in positions : i <= j

extractTableFromQuery(query) ==
  LET s == SquashWS(toUpperCase(trim(query))) IN
  IF \E i \in 1..Len(s) : DmlMatchAt(s, i)
  THEN toLowerCaseTok(DmlTableAt(s, FirstAt({i \in 1..Len(s) : DmlMatchAt(s, i)})))
  ELSE IF \E i \in 1..Len(s) : DropMatchAt(s, i)
  THEN toLowerCaseTok(DropTableAt(s, FirstAt({i \in 1..Len(s) : DropMatchAt(s, i)})))
  ELSE IF \E i \in 1..Len(s) : TruncMatchAt(s, i)
  THEN toLowerCaseTok(TruncTableAt(s, FirstAt({i \in 1..Len(s) : TruncMatchAt(s, i)})))
  ELSE "null"

------------------------------------------------------------------------------
(* handleQuery's classification of the statement for the backup.            *)

operationTypeOf(query) ==
  LET normalizedQuery == toUpperCase(trim(query)) IN
  IF startsWith(normalizedQuery, "DELETE") \/ includes1(normalizedQuery, "TRUNCATE")
  THEN "DELETE"
  ELSE IF startsWith(normalizedQuery, "UPDATE") THEN "UPDATE"
  ELSE IF startsWith(normalizedQuery, "INSERT") THEN "INSERT"
  ELSE IF includes2(normalizedQuery, "DROP", "TABLE") THEN "DROP_TABLE"
  ELSE "null"

------------------------------------------------------------------------------
(* createBackup's WHERE extraction.                                         *)

\* query.toLowerCase().includes('where')
includesWhere(query) ==
  \E i \in 1..Len(query) :
    toUpperCaseTok(query[i]) = "WHERE" \/ query[i] = COMMENT_WHERE

\* /WHERE\s+(.+?)(?:\s+ORDER\s+BY|\s+LIMIT|\s*$)/i : the captured group,
\* << >> when the expression does not match
WhereEndAt(s, j) ==
  \/ j = Len(s) + 1
  \/ j + 1 <= Len(s) /\ s[j] = "ORDER" /\ s[j + 1] = "BY"
  \/ j <= Len(s) /\ s[j] = "LIMIT"

whereMatch(query) ==
  LET s == SquashWS(trimEnd(query))
      u == toUpperCase(s)
      W == {i \in 1..Len(u) : u[i] = "WHERE" /\ i < Len(u)}
  IN IF W = {} THEN << >>
     ELSE LET i == CHOOSE w \in W : \A x \in W : w <= x
              j == CHOOSE e \in (i + 2)..(Len(u) + 1) :
                     WhereEndAt(u, e) /\ \A x \in (i + 2)..(e - 1) : ~WhereEndAt(u, x)
          IN SubSeq(s, i + 1, j - 1)

------------------------------------------------------------------------------
(* MySQL: one database holding at most the table "t" with columns id, v.    *)
(* A keyed table declares id AUTO_INCREMENT PRIMARY KEY; a plain table      *)
(* declares id INT NOT NULL DEFAULT 0 and has no unique key.                *)

MaxId == 3

SCHEMA_KEYED == "(id INT AUTO_INCREMENT PRIMARY KEY, v TEXT)"
SCHEMA_PLAIN == "(id INT NOT NULL DEFAULT 0, v TEXT)"
TableNames == {"t"}

Digits == <<"0", "1", "2", "3", "4", "5", "6", "7", "8", "9">>
NumTok(n) == IF n + 1 <= Len(Digits) THEN Digits[n + 1] ELSE "big"
IsNumTok(tok) == \E i \in 1..Len(Digits) : Digits[i] = tok
TokNum(tok) == (CHOOSE i \in 1..Len(Digits) : Digits[i] = tok) - 1

Ids == 0..MaxId
Rows == [id : Ids, v : Vals]

ValIdx(v) == CHOOSE i \in 1..Len(ValOrder) : ValOrder[i] = v
RowKey(r) == r.id * (Len(ValOrder) + 1) + ValIdx(r.v)

RECURSIVE BagToSeq(_)
BagToSeq(b) ==
  IF DOMAIN b = {} THEN << >>
  ELSE LET r == CHOOSE x \in DOMAIN b : \A y \in DOMAIN b : RowKey(x) <= RowKey(y)
       IN <<r>> \o BagToSeq(b (-) SetToBag({r}))

RECURSIVE SeqToBag(_)
SeqToBag(s) ==
  IF s = << >> THEN EmptyBag ELSE SetToBag({Head(s)}) (+) SeqToBag(Tail(s))

Reverse(s) == [i \in 1..Len(s) |-> s[Len(s) + 1 - i]]
Take(s, n) == SubSeq(s, 1, IF n < Len(s) THEN n ELSE Len(s))
Max(a, b) == IF a >= b THEN a ELSE b

NoTable == [exists |-> FALSE, hasKey |-> FALSE, rows |-> EmptyBag, autoInc |-> 1]

\* the text of a condition, as MySQL evaluates it on a row
Conds == {"id=1", "id=2", "v='a'"}
CondHolds(cond, r) ==
  CASE cond = "id=1" -> r.id = 1
    [] cond = "id=2" -> r.id = 2
    [] cond = "v='a'" -> r.v = "a"
    [] OTHER -> TRUE

Assigns == {"v='b'"}
AssignVal(tok) == "b"

Tuples == {"('a')", "('2025-07-10T16:32:07')"}
TupleVal(tok) == IF tok = "('a')" THEN "a" ELSE ISO_T

At(s, i) == IF i >= 1 /\ i <= Len(s) THEN s[i] ELSE ""

SyntaxError == [k |-> "ERROR"]

\* the optional  WHERE cond  [ORDER BY id DESC]  [LIMIT n]  from position p on
ParseTail(s, u, p, base) ==
  LET hasWhere == At(u, p) = "WHERE" /\ At(s, p + 1) \in Conds
      p1 == IF hasWhere THEN p + 2 ELSE p
      hasOrder == At(u, p1) = "ORDER" /\ At(u, p1 + 1) = "BY" /\ At(s, p1 + 2) = "id"
                    /\ At(u, p1 + 3) \in {"ASC", "DESC"}
      p2 == IF hasOrder THEN p1 + 4 ELSE p1
      hasLimit == At(u, p2) = "LIMIT" /\ IsNumTok(At(s, p2 + 1))
      p3 == IF hasLimit THEN p2 + 2 ELSE p2
  IN IF p3 # Len(s) + 1 THEN SyntaxError
     ELSE [k |-> base.k, table |-> base.table, setv |-> base.setv,
           cond |-> IF hasWhere THEN s[p + 1] ELSE "",
           desc |-> hasOrder /\ At(u, p1 + 3) = "DESC",
           limit |-> IF hasLimit THEN TokNum(s[p2 + 1]) ELSE -1]

\* MySQL's reading of a statement text
Parse(q) ==
  LET s == SelectSeq(q, LAMBDA tok : tok \notin {WS, COMMENT, COMMENT_WHERE})
      u == toUpperCase(s)
      n == Len(s)
  IN
  IF At(u, 1) = "SELECT" /\ At(u, 2) = "*" /\ At(u, 3) = "FROM" /\ n >= 4
  THEN ParseTail(s, u, 5, [k |-> "SELECT", table |-> s[4], setv |-> ""])
  ELSE IF At(u, 1) = "DELETE" /\ At(u, 2) = "FROM" /\ n >= 3
  THEN ParseTail(s, u, 4, [k |-> "DELETE", table |-> s[3], setv |-> ""])
  ELSE IF At(u, 1) = "UPDATE" /\ At(u, 3) = "SET" /\ At(s, 4) \in Assigns
  THEN ParseTail(s, u, 5, [k |-> "UPDATE", table |-> s[2], setv |-> AssignVal(s[4])])
  ELSE IF At(u, 1) = "INSERT" /\ At(u, 2) = "INTO" /\ At(s, 4) = "(v)"
          /\ At(u, 5) = "VALUES" /\ n >= 6
          /\ \A i \in 6..n : s[i] \in Tuples
  THEN [k |-> "INSERT", table |-> s[3],
        vals |-> [i \in 1..(n - 5) |-> TupleVal(s[i + 5])]]
  ELSE IF At(u, 1) = "DROP" /\ At(u, 2) = "TABLE" /\ n = 3
  THEN [k |-> "DROP", table |-> s[3], ifExists |-> FALSE]
  ELSE IF At(u, 1) = "DROP" /\ At(u, 2) = "TABLE" /\ At(u, 3) = "IF"
          /\ At(u, 4) = "EXISTS" /\ n = 5
  THEN [k |-> "DROP", table |-> s[5], ifExists |-> TRUE]
  ELSE IF At(u, 1) = "CREATE" /\ At(u, 2) = "TABLE"
          /\ At(s, 4) \in {SCHEMA_KEYED, SCHEMA_PLAIN}
          /\ (n = 4 \/ (n = 6 /\ At(s, 5) = "AUTO_INCREMENT=" /\ IsNumTok(s[6])))
  THEN [k |-> "CREATE", table |-> s[3], hasKey |-> s[4] = SCHEMA_KEYED,
        autoInc |-> IF n = 6 THEN TokNum(s[6]) ELSE 1]
  ELSE IF At(u, 1) = "TRUNCATE" /\ At(u, 2) = "TABLE" /\ n = 3
  THEN [k |-> "TRUNCATE", table |-> s[3]]
  ELSE IF At(u, 1) = "SHOW" /\ At(u, 2) = "CREATE" /\ At(u, 3) = "TABLE" /\ n = 4
  THEN [k |-> "SHOWCREATE", table |-> s[4]]
  ELSE SyntaxError

\* statements that change data or schema when MySQL runs them
ModifyingKinds ==
  {"DELETE", "UPDATE", "INSERT", "DROP", "CREATE", "TRUNCATE",
   "INSERTROW", "UPDATEID", "DELETEID"}

Failed(d) ==
  [ok |-> FALSE, db |-> d, rows |-> << >>, affectedRows |-> 0, insertId |-> 0,
   isRowSet |-> FALSE]

Header(d, affected, insertId) ==
  [ok |-> TRUE, db |-> d, rows |-> << >>, affectedRows |-> affected,
   insertId |-> insertId, isRowSet |-> FALSE]

RowSet(d, rows) ==
  [ok |-> TRUE, db |-> d, rows |-> rows, affectedRows |-> 0, insertId |-> 0,
   isRowSet |-> TRUE]

Matching(d, cond) ==
  SelectSeq(BagToSeq(d.rows), LAMBDA r : cond = "" \/ CondHolds(cond, r))

Victims(d, st) ==
  LET m == Matching(d, st.cond)
      o == IF st.desc THEN Reverse(m) ELSE m
  IN IF st.limit >= 0 THEN Take(o, st.limit) ELSE o

CreateStatement(table, d) ==
  <<"CREATE", "TABLE", table, IF d.hasKey THEN SCHEMA_KEYED ELSE SCHEMA_PLAIN,
    "AUTO_INCREMENT=", NumTok(d.autoInc)>>

\* connection.execute of a parsed statement st on database d
ExecuteStmt(d, st) ==
  IF st.k = "ERROR" THEN Failed(d)
  ELSE IF st.k = "SHOWTABLES" THEN
    RowSet(d, IF d.exists THEN <<[Tables_in_db |-> "t"]>> ELSE << >>)
  ELSE IF st.table \notin TableNames THEN Failed(d)
  ELSE IF st.k = "CREATE" THEN
    IF d.exists THEN Failed(d)
    ELSE Header([exists |-> TRUE, hasKey |-> st.hasKey, rows |-> EmptyBag,
                 autoInc |-> st.autoInc], 0, 0)
  ELSE IF st.k = "DROP" THEN
    IF d.exists THEN Header(NoTable, 0, 0)
    ELSE IF st.ifExists THEN Header(d, 0, 0) ELSE Failed(d)
  ELSE IF ~d.exists THEN Failed(d)
  ELSE IF st.k = "SELECT" THEN RowSet(d, Matching(d, st.cond))
  ELSE IF st.k = "SHOWCREATE" THEN
    RowSet(d, <<[Table |-> st.table, CreateTable |-> CreateStatement(st.table, d)]>>)
  ELSE IF st.k = "TRUNCATE" THEN
    Header([d EXCEPT !.rows = EmptyBag, !.autoInc = 1], 0, 0)
  ELSE IF st.k = "DELETE" THEN
    LET v == Victims(d, st)
    IN Header([d EXCEPT !.rows = d.rows (-) SeqToBag(v)], Len(v), 0)
  ELSE IF st.k = "UPDATE" THEN
    LET v == Victims(d, st)
        w == [i \in 1..Len(v) |-> [v[i] EXCEPT !.v = st.setv]]
    IN Header([d EXCEPT !.rows = (d.rows (-) SeqToBag(v)) (+) SeqToBag(w)], Len(v), 0)
  ELSE IF st.k = "INSERT" THEN
    LET n == Len(st.vals)
        new == [i \in 1..n |->
                  [id |-> IF d.hasKey THEN d.autoInc + i - 1 ELSE 0, v |-> st.vals[i]]]
    IN Header([d EXCEPT !.rows = d.rows (+) SeqToBag(new),
                        !.autoInc = IF d.hasKey THEN d.autoInc + n ELSE d.autoInc],
              n, IF d.hasKey THEN d.autoInc ELSE 0)
  ELSE IF st.k = "INSERTROW" THEN
    IF d.hasKey /\ \E r \in DOMAIN d.rows : r.id = st.row.id THEN Failed(d)
    ELSE Header([d EXCEPT !.rows = d.rows (+) SetToBag({st.row}),
                          !.autoInc = IF d.hasKey THEN Max(d.autoInc, st.row.id + 1)
                                      ELSE d.autoInc],
                1, IF d.hasKey THEN st.row.id ELSE 0)
  ELSE IF st.k = "UPDATEID" THEN
    LET v == SelectSeq(BagToSeq(d.rows), LAMBDA r : r.id = st.id)
        w == [i \in 1..Len(v) |-> [v[i] EXCEPT !.v = st.setv]]
    IN Header([d EXCEPT !.rows = (d.rows (-) SeqToBag(v)) (+) SeqToBag(w)], Len(v), 0)
  ELSE IF st.k = "DELETEID" THEN
    LET v == SelectSeq(BagToSeq(d.rows), LAMBDA r : r.id >= st.lo /\ r.id <= st.hi)
    IN Header([d EXCEPT !.rows = d.rows (-) SeqToBag(v)], Len(v), 0)
  ELSE Failed(d)

------------------------------------------------------------------------------
(* The running server.                                                      *)

VARIABLES
  permissions,      \* this.permissions, read once from the environment
  sessionId,        \* this.sessionId
  versionDB,        \* TRUE when initVersionControl opened the ledger store
  version_history,  \* the rows of table version_history, by ascending id
  sqlite_sequence,  \* the AUTOINCREMENT counter of version_history
  mysql,            \* the MySQL database
  last,             \* the last tool call: its arguments, what it issued, its result
  tableAt,          \* history: version id -> the table just before that operation ran
  lastWriter,       \* history: the version whose statement was the latest change
                    \* to the table, 0 when the latest change has no version
  remaining,        \* history: the tool calls this run may still serve
  clock,            \* process.hrtime and the wall clock (Date), in ticks
  inflight          \* this.connection, the connections open at the MySQL server
                    \* and the position of every tool call that has not returned

vars == <<permissions, sessionId, versionDB, version_history, sqlite_sequence,
          mysql, last, tableAt, lastWriter, remaining, clock, inflight>>

Null == [isNull |-> TRUE]

\* the tool calls that may be in flight at once
MaxInFlight == 3

InFlightCalls == 1..MaxInFlight

\* line 15: this.connection = null, and no request has arrived
NoneInFlight ==
  [connection |-> 0, open |-> {}, made |-> 0,
   calls |-> [c \in InFlightCalls |-> [pc |-> "idle", connection |-> 0, failed |-> FALSE]]]

\* Time is counted in ticks, TicksPerMs to the millisecond.  The wall clock
\* and process.hrtime advance together and are out of phase by whatever
\* the two readings were when the process started.
TicksPerMs == 2

\* line 211: the ISO time to the millisecond, followed by the last digits of
\* process.hrtime.bigint() (here: hrtime modulo one millisecond)
timestampOf(t) == [ms |-> t.now \div TicksPerMs, sub |-> t.hrtime % TicksPerMs]

\* ORDER BY timestamp: the order of the two texts
TimestampBefore(a, b) == a.ms < b.ms \/ (a.ms = b.ms /\ a.sub < b.sub)

getOperationDescription(operation, tableName, affectedRows) ==
  IF operation = "INSERT"
  THEN <<"INSERT operation: row(s) inserted into", tableName, affectedRows>>
  ELSE IF operation = "UPDATE"
  THEN <<"UPDATE operation: row(s) updated in", tableName, affectedRows>>
  ELSE IF operation = "DELETE"
  THEN <<"DELETE operation: row(s) deleted from", tableName, affectedRows>>
  ELSE IF operation = "CREATE_TABLE" THEN <<"CREATE TABLE operation: table created", tableName>>
  ELSE IF operation = "DROP_TABLE"
  THEN <<"DROP TABLE operation: table dropped with rows", tableName, affectedRows>>
  ELSE <<operation, "operation on", tableName>>

\* A call's working state: the database, the ledger, and what the call has
\* done so far (statements issued, ledger rows appended, console.error lines).
Ctx(d, vh, sq) == [db |-> d, vh |-> vh, seq |-> sq, trace |-> << >>, log |-> << >>]

Emit(c, e) == [c EXCEPT !.trace = Append(@, e)]
Log(c, line) == [c EXCEPT !.log = Append(@, line)]

\* await connection.execute(sql): the statement goes to MySQL; fail injects
\* an error of the server or the link for this statement
execute(c, st, fail) ==
  LET issued(r) ==
        [c |-> Emit([c EXCEPT !.db = r.db],
                    [ev |-> "sql", st |-> st, ok |-> r.ok,
                     affectedRows |-> r.affectedRows, insertId |-> r.insertId]),
         r |-> r]
  IN issued(IF fail THEN Failed(c.db) ELSE ExecuteStmt(c.db, st))

\* the new row's id one above the highest id in the table, as a rowid
\* declared without AUTOINCREMENT is chosen
saveVersionRowid(c, env, versionInfo) ==
  LET top == IF c.vh = << >> THEN 0 ELSE c.vh[Len(c.vh)].id
      rec == [id |-> top + 1] @@ versionInfo
  IN IF ~env.versionDB \/ env.fault = "ledger"
     THEN [c |-> Log(c, "Failed to save version"), threw |-> TRUE]
     ELSE [c |-> Emit([c EXCEPT !.vh = Append(@, rec), !.seq = @ + 1],
                      [ev |-> "append", id |-> top + 1]),
           threw |-> FALSE]

\* the newest row overwritten (UPDATE) when the ledger has one, instead of
\* a row inserted
saveVersionOverwriting(c, env, versionInfo) ==
  LET rec == [id |-> c.seq + 1] @@ versionInfo
      over == [id |-> c.vh[Len(c.vh)].id] @@ versionInfo
  IN IF ~env.versionDB \/ env.fault = "ledger"
     THEN [c |-> Log(c, "Failed to save version"), threw |-> TRUE]
     ELSE IF c.vh = << >>
     THEN [c |-> Emit([c EXCEPT !.vh = Append(@, rec), !.seq = @ + 1],
                      [ev |-> "append", id |-> c.seq + 1]),
           threw |-> FALSE]
     ELSE [c |-> Emit([c EXCEPT !.vh[Len(c.vh)] = over],
                      [ev |-> "append", id |-> over.id]),
           threw |-> FALSE]

\* a failed append logged and not rethrown
saveVersionSwallowing(c, env, versionInfo) ==
  IF ~env.versionDB \/ env.fault = "ledger"
  THEN [c |-> Log(c, "Failed to save version"), threw |-> FALSE]
  ELSE LET rec == [id |-> c.seq + 1] @@ versionInfo
       IN [c |-> Emit([c EXCEPT !.vh = Append(@, rec), !.seq = @ + 1],
                      [ev |-> "append", id |-> c.seq + 1]),
           threw |-> FALSE]

\* saveVersion: appends one row, or throws
saveVersion(c, env, versionInfo) ==
  IF ~env.versionDB \/ env.fault = "ledger"
  THEN [c |-> Log(c, "Failed to save version"), threw |-> TRUE]
  ELSE LET rec == [id |-> c.seq + 1] @@ versionInfo
       IN [c |-> Emit([c EXCEPT !.vh = Append(@, rec), !.seq = @ + 1],
                      [ev |-> "append", id |-> c.seq + 1]),
           threw |-> FALSE]

\* the id range with its end one past the last inserted row
idRangeOfExclusive(insertResult) ==
  [start |-> insertResult.insertId,
   end |-> insertResult.insertId + insertResult.affectedRows]

\* lines 199-203: the id range of an INSERT whose insertId is not 0
idRangeOf(insertResult) ==
  [start |-> insertResult.insertId,
   end |-> insertResult.insertId + insertResult.affectedRows - 1]

\* createBackup, lines 146-208: the snapshot for one operation
Capture(c, env, operation, query, targetTable, insertResult, connection) ==
  LET info == [isNull |-> FALSE, type |-> operation, sql_query |-> query]
      nothing == [c |-> c, threw |-> FALSE, backupData |-> Null, affectedRows |-> 0]
      \* lines 171-175: the rows the SELECT returned
      selected(e) ==
        [c |-> e.c, threw |-> ~e.r.ok,
         backupData |-> IF operation = "DELETE"
                        THEN info @@ [deletedRows |-> e.r.rows]
                        ELSE info @@ [originalRows |-> e.r.rows],
         affectedRows |-> Len(e.r.rows)]
      \* lines 158-169: the SELECT built from the statement's WHERE clause
      snapshot(where) ==
        IF includesWhere(query)
        THEN IF where # << >>
             THEN selected(execute(c, Parse(<<"SELECT", "*", "FROM", targetTable,
                                               "WHERE">> \o where),
                                   env.fault = "snapshot"))
             ELSE nothing
        ELSE selected(execute(c, Parse(<<"SELECT", "*", "FROM", targetTable>>),
                              env.fault = "snapshot"))
      \* lines 180-185: the table's rows, then its CREATE statement
      dropped(e1, e2) ==
        IF ~e1.r.ok
        THEN [c |-> e1.c, threw |-> TRUE, backupData |-> Null, affectedRows |-> 0]
        ELSE [c |-> e2.c, threw |-> ~e2.r.ok,
              backupData |-> IF e2.r.ok
                             THEN info @@ [structure |-> e2.r.rows[1], data |-> e1.r.rows]
                             ELSE Null,
              affectedRows |-> Len(e1.r.rows)]
      structure(e1) ==
        dropped(e1, execute(e1.c, Parse(<<"SHOW", "CREATE", "TABLE", targetTable>>),
                            FALSE))
      \* lines 193-204
      inserted(base) ==
        [c |-> c, threw |-> FALSE,
         backupData |->
           IF insertResult.insertId # 0
           THEN base @@ [idRange |-> idRangeOf(insertResult)]
           ELSE base,
         affectedRows |-> insertResult.affectedRows]
  IN
  IF connection /\ operation \in {"DELETE", "UPDATE"} THEN snapshot(whereMatch(query))
  ELSE IF connection /\ operation = "DROP_TABLE" THEN
    structure(execute(c, Parse(<<"SELECT", "*", "FROM", targetTable>>),
                      env.fault = "snapshot"))
  ELSE IF operation = "CREATE_TABLE" THEN
    [c |-> c, threw |-> FALSE,
     backupData |-> info @@ [tableName |-> targetTable, createQuery |-> query],
     affectedRows |-> 0]
  ELSE IF operation = "INSERT" THEN
    IF insertResult # Null
    THEN inserted(info @@ [insertId |-> insertResult.insertId,
                           insertedRows |-> insertResult.affectedRows,
                           tableName |-> targetTable])
    ELSE [c |-> c, threw |-> FALSE, backupData |-> info, affectedRows |-> 0]
  ELSE nothing

NoWritePermission(perm) ==
  ~perm.allowInsert /\ ~perm.allowUpdate /\ ~perm.allowDelete

\* createBackup returning null as soon as one permission is off
createBackupAnyOff(c, env, operation, query, targetTable, insertResult, connection) ==
  LET saved(sv) ==
        IF sv.threw
        THEN [c |-> Log(sv.c, "Backup creation failed"), threw |-> TRUE,
              saved |-> FALSE]
        ELSE [c |-> sv.c, threw |-> FALSE, saved |-> TRUE]
      captured(cap) ==
        IF cap.threw
        THEN [c |-> Log(cap.c, "Backup creation failed"), threw |-> TRUE,
              saved |-> FALSE]
        ELSE saved(saveVersion(cap.c, env,
                     [session_id |-> env.sessionId,
                      timestamp |-> timestampOf(env.clock),
                      operation_type |-> operation,
                      target_table |-> targetTable,
                      sql_query |-> query,
                      backup_data |-> cap.backupData,
                      affected_rows |-> cap.affectedRows,
                      description |-> getOperationDescription(operation, targetTable,
                                                              cap.affectedRows)]))
  IN IF ~env.perm.allowInsert \/ ~env.perm.allowUpdate \/ ~env.perm.allowDelete
     THEN [c |-> c, threw |-> FALSE, saved |-> FALSE]
     ELSE captured(Capture(c, env, operation, query, targetTable, insertResult,
                           connection))

\* createBackup: [c, threw, saved]; saved is FALSE when it returned null or threw
createBackup(c, env, operation, query, targetTable, insertResult, connection) ==
  LET \* lines 213-224, and the catch of lines 225-228
      saved(sv) ==
        IF sv.threw
        THEN [c |-> Log(sv.c, "Backup creation failed"), threw |-> TRUE,
              saved |-> FALSE]
        ELSE [c |-> sv.c, threw |-> FALSE, saved |-> TRUE]
      captured(cap) ==
        IF cap.threw
        THEN [c |-> Log(cap.c, "Backup creation failed"), threw |-> TRUE,
              saved |-> FALSE]
        ELSE saved(saveVersion(cap.c, env,
                     [session_id |-> env.sessionId,
                      timestamp |-> timestampOf(env.clock),
                      operation_type |-> operation,
                      target_table |-> targetTable,
                      sql_query |-> query,
                      backup_data |-> cap.backupData,
                      affected_rows |-> cap.affectedRows,
                      description |-> getOperationDescription(operation, targetTable,
                                                              cap.affectedRows)]))
  IN IF NoWritePermission(env.perm)
     THEN [c |-> c, threw |-> FALSE, saved |-> FALSE]
     ELSE captured(Capture(c, env, operation, query, targetTable, insertResult,
                           connection))

\* createBackup called without the handlers' try/catch around it
tryBackupRethrowing(c, env, operation, query, targetTable, insertResult) ==
  LET uncaught(b) ==
        [c |-> b.c, threw |-> b.threw, failed |-> b.threw, saved |-> b.saved]
  IN uncaught(createBackup(c, env, operation, query, targetTable, insertResult, TRUE))

\* the handlers' try { await this.createBackup(...) } catch { console.error }
tryBackup(c, env, operation, query, targetTable, insertResult) ==
  LET caught(b) ==
        [c |-> IF b.threw THEN Log(b.c, "Backup failed") ELSE b.c,
         threw |-> FALSE, failed |-> b.threw, saved |-> b.saved]
  IN caught(createBackup(c, env, operation, query, targetTable, insertResult, TRUE))

------------------------------------------------------------------------------
(* Tool handlers.  Each returns the call's final working state and its      *)
(* response; the dispatcher turns a thrown error into an isError response.  *)

Response(isError, text, n) == [isError |-> isError, text |-> text, n |-> n]

Outcome(c, response, denied, backupFailed, backupSaved, executed) ==
  [c |-> c, response |-> response, denied |-> denied,
   backupFailed |-> backupFailed, backupSaved |-> backupSaved,
   executed |-> executed]

NoBackup(c) == [c |-> c, threw |-> FALSE, failed |-> FALSE, saved |-> FALSE]

\* every recorded operation backed up before the statement runs
backupBeforeEvery(operationType, targetTable) ==
  operationType \in {"DELETE", "UPDATE", "DROP_TABLE", "INSERT"} /\ targetTable # "null"

\* line 879: the operations backed up before the statement runs
backupBefore(operationType, targetTable) ==
  operationType \in {"DELETE", "UPDATE", "DROP_TABLE"} /\ targetTable # "null"

\* line 890: the operations backed up after the statement ran
backupAfter(operationType, targetTable, r) ==
  operationType = "INSERT" /\ targetTable # "null" /\ ~r.isRowSet

\* an error thrown inside try { } finally { await connection.end() }
Thrown(c) ==
  Outcome(Emit(c, [ev |-> "end"]), Response(TRUE, "Error: backup", 0),
          FALSE, TRUE, FALSE, FALSE)

InsertResult(r) == [insertId |-> r.insertId, affectedRows |-> r.affectedRows]

handleQuery(c0, env, query) ==
  LET targetTable == extractTableFromQuery(query)
      operationType == operationTypeOf(query)
      \* lines 898-914
      response(r) ==
        IF r.isRowSet /\ Len(r.rows) > 0
        THEN Response(FALSE, "table of rows", Len(r.rows))
        ELSE IF ~r.isRowSet
        THEN Response(FALSE, "Query executed successfully. Affected rows:",
                      r.affectedRows)
        ELSE Response(FALSE, "Query executed successfully. No rows returned.", 0)
      done(pre, e, post) ==
        IF post.threw THEN Thrown(post.c)
        ELSE Outcome(Emit(post.c, [ev |-> "end"]), response(e.r), FALSE,
                     pre.failed \/ post.failed, pre.saved \/ post.saved, TRUE)
      \* lines 890-896
      executed(pre, e) ==
        IF ~e.r.ok
        THEN Outcome(Emit(e.c, [ev |-> "end"]),
                     Response(TRUE, "Error: query failed", 0),
                     FALSE, pre.failed, pre.saved, FALSE)
        ELSE done(pre, e,
                  IF backupAfter(operationType, targetTable, e.r)
                  THEN tryBackup(e.c, env, operationType, query, targetTable,
                                 InsertResult(e.r))
                  ELSE NoBackup(e.c))
      \* line 887
      backedUp(pre) ==
        IF pre.threw THEN Thrown(pre.c)
        ELSE executed(pre, execute(pre.c, Parse(query), env.fault = "execute"))
      \* lines 879-885
      connected(c1) ==
        backedUp(IF backupBefore(operationType, targetTable)
                 THEN tryBackup(c1, env, operationType, query, targetTable, Null)
                 ELSE NoBackup(c1))
  IN IF ~checkQueryPermissions(env.perm, query)
     THEN Outcome(c0, Response(TRUE, "Error: operations are not allowed", 0),
                  TRUE, FALSE, FALSE, FALSE)
     ELSE IF env.fault = "connect"
     THEN Outcome(c0, Response(TRUE, "Error: connect", 0), FALSE, FALSE, FALSE, FALSE)
     ELSE connected(Emit(c0, [ev |-> "connect"]))

handleCreateTable(c0, env, table_name, schema) ==
  LET createTableSQL == <<"CREATE", "TABLE", table_name, schema>>
      done(e, post) ==
        IF post.threw THEN Thrown(post.c)
        ELSE Outcome(Emit(post.c, [ev |-> "end"]),
                     Response(FALSE, "Table created successfully.", 0),
                     FALSE, post.failed, post.saved, TRUE)
      executed(e) ==
        IF ~e.r.ok
        THEN Outcome(Emit(e.c, [ev |-> "end"]), Response(TRUE, "Error: query failed", 0),
                     FALSE, FALSE, FALSE, FALSE)
        ELSE done(e, tryBackup(e.c, env, "CREATE_TABLE", createTableSQL, table_name,
                               Null))
  IN IF ~env.perm.allowInsert
     THEN Outcome(c0, Response(TRUE, "Error: CREATE TABLE operations are not allowed", 0),
                  TRUE, FALSE, FALSE, FALSE)
     ELSE IF env.fault = "connect"
     THEN Outcome(c0, Response(TRUE, "Error: connect", 0), FALSE, FALSE, FALSE, FALSE)
     ELSE executed(execute(Emit(c0, [ev |-> "connect"]), Parse(createTableSQL),
                           env.fault = "execute"))

\* the text handleInsertData builds for one column v
insertSQLOf(table) == <<"INSERT", "INTO", table, "(v)", "VALUES", "(?)">>

handleInsertData(c0, env, table, value) ==
  LET done(e, post) ==
        IF post.threw THEN Thrown(post.c)
        ELSE Outcome(Emit(post.c, [ev |-> "end"]),
                     Response(FALSE, "Data inserted successfully. Affected rows:",
                              e.r.affectedRows),
                     FALSE, post.failed, post.saved, TRUE)
      executed(e) ==
        IF ~e.r.ok
        THEN Outcome(Emit(e.c, [ev |-> "end"]), Response(TRUE, "Error: query failed", 0),
                     FALSE, FALSE, FALSE, FALSE)
        ELSE done(e, tryBackup(e.c, env, "INSERT", insertSQLOf(table), table,
                               InsertResult(e.r)))
  IN IF ~env.perm.allowInsert
     THEN Outcome(c0, Response(TRUE, "Error: INSERT operations are not allowed", 0),
                  TRUE, FALSE, FALSE, FALSE)
     ELSE IF env.fault = "connect"
     THEN Outcome(c0, Response(TRUE, "Error: connect", 0), FALSE, FALSE, FALSE, FALSE)
     ELSE executed(execute(Emit(c0, [ev |-> "connect"]),
                           [k |-> "INSERT", table |-> table, vals |-> <<value>>],
                           env.fault = "execute"))

\* connection.end() after the statement, outside of a finally block
handleShowTablesNoFinally(c0, env) ==
  LET executed(e) ==
        IF e.r.ok
        THEN Outcome(Emit(e.c, [ev |-> "end"]), Response(FALSE, "Tables in database", 0),
                     FALSE, FALSE, FALSE, TRUE)
        ELSE Outcome(e.c, Response(TRUE, "Error: query failed", 0),
                     FALSE, FALSE, FALSE, FALSE)
  IN IF env.fault = "connect"
     THEN Outcome(c0, Response(TRUE, "Error: connect", 0), FALSE, FALSE, FALSE, FALSE)
     ELSE executed(execute(Emit(c0, [ev |-> "connect"]),
                           [k |-> "SHOWTABLES", table |-> "t"], env.fault = "execute"))

\* handleShowTables and the other handlers that only read
handleShowTables(c0, env) ==
  LET executed(e) ==
        Outcome(Emit(e.c, [ev |-> "end"]),
                IF e.r.ok THEN Response(FALSE, "Tables in database", 0)
                ELSE Response(TRUE, "Error: query failed", 0),
                FALSE, FALSE, FALSE, e.r.ok)
  IN IF env.fault = "connect"
     THEN Outcome(c0, Response(TRUE, "Error: connect", 0), FALSE, FALSE, FALSE, FALSE)
     ELSE executed(execute(Emit(c0, [ev |-> "connect"]),
                           [k |-> "SHOWTABLES", table |-> "t"], env.fault = "execute"))

------------------------------------------------------------------------------
(* handleRollbackToVersion.                                                 *)

\* the value mapping of lines 1365-1371: a string that begins like an ISO
\* date-time is re-rendered with new Date(value).toISOString().slice(0, 19)
\* and its 'T' replaced by a space (host clock on UTC)
normalizeValue(value) == IF value = ISO_T THEN ISO_SP ELSE value

normalizeRow(row) == [id |-> row.id, v |-> normalizeValue(row.v)]

\* for (const row of rows) await connection.execute(insertSQL, values)
RECURSIVE insertRows(_, _, _)
insertRows(c, table, rows) ==
  LET inserted(e) ==
        IF ~e.r.ok THEN [c |-> e.c, threw |-> TRUE]
        ELSE insertRows(e.c, table, Tail(rows))
  IN IF rows = << >> THEN [c |-> c, threw |-> FALSE]
     ELSE inserted(execute(c, [k |-> "INSERTROW", table |-> table,
                               row |-> normalizeRow(Head(rows))], FALSE))

\* for (const row of originalRows) if (row.id) await connection.execute(updateSQL, ...)
RECURSIVE updateRows(_, _, _)
updateRows(c, table, rows) ==
  LET updated(e) ==
        IF ~e.r.ok THEN [c |-> e.c, threw |-> TRUE]
        ELSE updateRows(e.c, table, Tail(rows))
  IN IF rows = << >> THEN [c |-> c, threw |-> FALSE]
     ELSE IF Head(rows).id # 0
     THEN updated(execute(c, [k |-> "UPDATEID", table |-> table, id |-> Head(rows).id,
                              setv |-> normalizeValue(Head(rows).v)], FALSE))
     ELSE updateRows(c, table, Tail(rows))

Has(rec, field) == field \in DOMAIN rec

\* lines 1357-1448: the inverse action for one version row; [c, threw, result]
Inverse(c, versionInfo) ==
  LET backupData == versionInfo.backup_data
      table == versionInfo.target_table
      type == versionInfo.operation_type
      nothing == [c |-> c, threw |-> FALSE, result |-> "", n |-> 0]
      restored(r, result, n) ==
        [c |-> r.c, threw |-> r.threw, result |-> result, n |-> n]
      \* lines 1404-1417
      deleted(e, start, end) ==
        [c |-> e.c, threw |-> ~e.r.ok,
         result |-> IF start = end THEN "Deleted inserted row with id"
                    ELSE "Deleted inserted rows with ids",
         n |-> start]
      deleteRange(start, end) ==
        deleted(execute(c, [k |-> "DELETEID", table |-> table, lo |-> start, hi |-> end,
                            form |-> IF start = end THEN "id = ?"
                                     ELSE "id BETWEEN ? AND ?"], FALSE),
                start, end)
      \* lines 1418-1443
      recreated(e) ==
        restored(IF e.r.ok THEN insertRows(e.c, table, backupData.data)
                 ELSE [c |-> e.c, threw |-> TRUE],
                 "Restored table", Len(backupData.data))
      \* lines 1444-1448
      dropped(e) ==
        [c |-> e.c, threw |-> ~e.r.ok, result |-> "Dropped table", n |-> 0]
  IN
  IF type = "DELETE" THEN
    IF Has(backupData, "deletedRows") /\ Len(backupData.deletedRows) > 0
    THEN restored(insertRows(c, table, backupData.deletedRows),
                  "Restored deleted rows", Len(backupData.deletedRows))
    ELSE nothing
  ELSE IF type = "UPDATE" THEN
    IF Has(backupData, "originalRows") /\ Len(backupData.originalRows) > 0
    THEN restored(updateRows(c, table, backupData.originalRows),
                  "Restored rows to original state", Len(backupData.originalRows))
    ELSE nothing
  ELSE IF type = "INSERT" THEN
    IF Has(backupData, "idRange")
    THEN deleteRange(backupData.idRange.start, backupData.idRange.end)
    ELSE [c |-> c, threw |-> FALSE,
          result |-> "INSERT rollback: Manual deletion may be required.", n |-> 0]
  ELSE IF type = "DROP_TABLE" THEN
    IF Has(backupData, "structure") /\ Has(backupData, "data")
    THEN recreated(execute(c, Parse(backupData.structure.CreateTable), FALSE))
    ELSE nothing
  ELSE IF type = "CREATE_TABLE" THEN
    dropped(execute(c, Parse(<<"DROP", "TABLE", "IF", "EXISTS", table>>), FALSE))
  ELSE nothing

\* the oldest row, whatever id is asked for
LookupOldest(vh, version_id) ==
  IF vh = << >> THEN << >> ELSE <<vh[1]>>

\* lines 1327-1328: SELECT * FROM version_history WHERE id = ?
Lookup(vh, version_id) ==
  SelectSeq(vh, LAMBDA rec : rec.id = version_id)

handleRollbackToVersion(c0, env, version_id) ==
  LET \* lines 1463-1480
      recorded(inv, sv) ==
        IF sv.threw
        THEN Outcome(Emit(sv.c, [ev |-> "end"]),
                     Response(TRUE, "Rollback failed", 0),
                     FALSE, FALSE, FALSE, FALSE)
        ELSE Outcome(Emit(sv.c, [ev |-> "end"]),
                     Response(FALSE, "Rollback successful!", inv.n)
                       @@ [result |-> inv.result],
                     FALSE, FALSE, TRUE, TRUE)
      \* lines 1450-1461
      inverted(versionInfo, inv) ==
        IF inv.threw
        THEN Outcome(Emit(inv.c, [ev |-> "end"]), Response(TRUE, "Rollback failed", 0),
                     FALSE, FALSE, FALSE, FALSE)
        ELSE recorded(inv, saveVersion(inv.c, env,
                        [session_id |-> env.sessionId,
                         timestamp |-> timestampOf(env.clock),
                         operation_type |-> "ROLLBACK",
                         target_table |-> versionInfo.target_table,
                         sql_query |-> <<"ROLLBACK", "TO", "VERSION",
                                         NumTok(version_id)>>,
                         backup_data |-> Null,
                         affected_rows |-> 0,
                         description |-> <<"Rollback to version",
                                           NumTok(version_id)>>]))
      found(versionInfo) ==
        IF versionInfo.backup_data = Null
        THEN Outcome(c0, Response(TRUE, "Version has no backup data to restore.",
                                  version_id),
                     FALSE, FALSE, FALSE, FALSE)
        ELSE IF env.fault = "connect"
        THEN Outcome(c0, Response(TRUE, "Error accessing version data", 0),
                     FALSE, FALSE, FALSE, FALSE)
        ELSE inverted(versionInfo, Inverse(Emit(c0, [ev |-> "connect"]), versionInfo))
      looked(rows) ==
        IF rows = << >>
        THEN Outcome(c0, Response(TRUE, "Version not found.", version_id),
                     FALSE, FALSE, FALSE, FALSE)
        ELSE found(rows[1])
  IN IF ~env.versionDB
     THEN Outcome(c0, Response(TRUE, "Error accessing version data", 0),
                  FALSE, FALSE, FALSE, FALSE)
     ELSE looked(Lookup(c0.vh, version_id))

------------------------------------------------------------------------------
(* handleListVersions and handleClearVersionHistory.                        *)

DefaultLimit == 50

\* const limit = args.limit || 50: an omitted limit and the limit 0 give 50
limitOf(args) ==
  IF Has(args, "limit") /\ args.limit # 0 THEN args.limit ELSE DefaultLimit

\* SQLite's LIMIT n: the first n rows, every row when n is negative
LimitRows(rows, n) == IF n < 0 THEN rows ELSE Take(rows, n)

\* SELECT id, timestamp, operation_type, target_table, affected_rows, description
Listed(rec) ==
  [id |-> rec.id, timestamp |-> rec.timestamp, operation_type |-> rec.operation_type,
   target_table |-> rec.target_table, affected_rows |-> rec.affected_rows,
   description |-> rec.description]

\* const sessionOnly = args.session_only !== false
sessionOnlyOf(args) == ~(Has(args, "session_only") /\ args.session_only = FALSE)

\* the WHERE clause without its session condition
matchesFiltersAcross(rec, env, args) ==
  /\ Has(args, "operation_type")
       => rec.operation_type = toUpperCaseTok(args.operation_type)
  /\ Has(args, "target_table") => rec.target_table = args.target_table

\* lines 1250-1266: WHERE session_id = ? AND operation_type = ? AND
\* target_table = ?, each condition present when its argument is
matchesFilters(rec, env, args) ==
  /\ sessionOnlyOf(args) => rec.session_id = env.sessionId
  /\ Has(args, "operation_type")
       => rec.operation_type = toUpperCaseTok(args.operation_type)
  /\ Has(args, "target_table") => rec.target_table = args.target_table

\* ... WHERE session_id = ? ... ORDER BY timestamp DESC LIMIT ?
selectVersions(vh, env, args) ==
  LET mine == SelectSeq(vh, LAMBDA rec : matchesFilters(rec, env, args))
      newestFirst == SortSeq(mine, LAMBDA a, b :
                                     TimestampBefore(b.timestamp, a.timestamp))
      limited == LimitRows(newestFirst, limitOf(args))
  IN [i \in 1..Len(limited) |-> Listed(limited[i])]

handleListVersions(c0, env, args) ==
  LET listed(rows) ==
        IF rows = << >>
        THEN Outcome(c0, Response(FALSE, "No version history found.", 0)
                           @@ [rows |-> rows, args |-> args],
                     FALSE, FALSE, FALSE, FALSE)
        ELSE Outcome(c0, Response(FALSE, "Version History", Len(rows))
                           @@ [rows |-> rows, args |-> args],
                     FALSE, FALSE, FALSE, FALSE)
  IN IF ~env.versionDB
     THEN Outcome(c0, Response(TRUE, "Error listing versions", 0)
                        @@ [rows |-> << >>, args |-> args],
                  FALSE, FALSE, FALSE, FALSE)
     ELSE listed(selectVersions(c0.vh, env, args))

\* the confirmation taken as given
confirmOfAlways(args) == TRUE

\* if (!args.confirm): confirm is a boolean, or omitted
confirmOf(args) == Has(args, "confirm") /\ args.confirm

\* DELETE FROM version_history, whatever session_only is
handleClearEverySession(c0, env, args) ==
  LET changes == Len(c0.vh)
  IN IF ~confirmOf(args)
     THEN Outcome(c0, Response(TRUE, "Clear operation cancelled.", 0)
                        @@ [args |-> args],
                  FALSE, FALSE, FALSE, FALSE)
     ELSE IF ~env.versionDB
     THEN Outcome(c0, Response(TRUE, "Error clearing version history", 0)
                        @@ [args |-> args],
                  FALSE, FALSE, FALSE, FALSE)
     ELSE Outcome(Emit([c0 EXCEPT !.vh = << >>], [ev |-> "clear", changes |-> changes]),
                  Response(FALSE, "Cleared version records", changes)
                    @@ [args |-> args],
                  FALSE, FALSE, FALSE, FALSE)

\* DELETE FROM version_history [WHERE session_id = ?]; the AUTOINCREMENT
\* counter in sqlite_sequence is left as it is
handleClearVersionHistory(c0, env, args) ==
  LET kept == SelectSeq(c0.vh, LAMBDA rec : sessionOnlyOf(args)
                                             /\ rec.session_id # env.sessionId)
      changes == Len(c0.vh) - Len(kept)
  IN IF ~confirmOf(args)
     THEN Outcome(c0, Response(TRUE, "Clear operation cancelled.", 0)
                        @@ [args |-> args],
                  FALSE, FALSE, FALSE, FALSE)
     ELSE IF ~env.versionDB
     THEN Outcome(c0, Response(TRUE, "Error clearing version history", 0)
                        @@ [args |-> args],
                  FALSE, FALSE, FALSE, FALSE)
     ELSE Outcome(Emit([c0 EXCEPT !.vh = kept], [ev |-> "clear", changes |-> changes]),
                  Response(FALSE, "Cleared version records", changes)
                    @@ [args |-> args],
                  FALSE, FALSE, FALSE, FALSE)

------------------------------------------------------------------------------
(* Inputs and initial states.                                               *)

Q_Select == <<"SELECT", "*", "FROM", "t">>
Q_DeleteId1 == <<"DELETE", "FROM", "t", "WHERE", "id=1">>
Q_DeleteAll == <<"DELETE", "FROM", "t">>
Q_DeleteLimit ==
  <<"DELETE", "FROM", "t", "WHERE", "v='a'", "ORDER", "BY", "id", "DESC", "LIMIT", "1">>
Q_DeleteFirst ==
  <<"DELETE", "FROM", "t", "WHERE", "v='a'", "ORDER", "BY", "id", "ASC", "LIMIT", "1">>
Q_DeleteNoted == <<"DELETE", "FROM", "t", COMMENT_WHERE>>
Q_UpdateAll == <<"UPDATE", "t", "SET", "v='b'">>
Q_Insert2 ==
  <<"INSERT", "INTO", "t", "(v)", "VALUES", "('a')", "('2025-07-10T16:32:07')">>
Q_Drop == <<"DROP", "TABLE", "t">>
Q_DropWide == <<"DROP", WS, "TABLE", "t">>
Q_Create == <<"CREATE", "TABLE", "t", SCHEMA_KEYED>>

Queries ==
  { Q_Select, Q_DeleteId1, Q_DeleteAll, Q_DeleteLimit, Q_UpdateAll, Q_Insert2,
    Q_Drop, Q_DropWide, Q_Create }

Faults == {"none", "connect", "snapshot", "ledger", "execute"}

Table(hasKey, rows, autoInc) ==
  [exists |-> TRUE, hasKey |-> hasKey, rows |-> SeqToBag(rows), autoInc |-> autoInc]

InitialTables ==
  { NoTable,
    Table(TRUE, <<[id |-> 1, v |-> "a"], [id |-> 2, v |-> "a"]>>, 3),
    Table(TRUE, <<[id |-> 1, v |-> ISO_T]>>, 2),
    Table(FALSE, <<[id |-> 0, v |-> "a"], [id |-> 2, v |-> "a"]>>, 1) }

\* a row an earlier server process (session 0, DELETE allowed) left in the ledger
PriorDelete ==
  [id |-> 1, session_id |-> 0, timestamp |-> [ms |-> -1, sub |-> 0],
   operation_type |-> "DELETE", target_table |-> "t",
   sql_query |-> Q_DeleteId1,
   backup_data |-> [isNull |-> FALSE, type |-> "DELETE", sql_query |-> Q_DeleteId1,
                    deletedRows |-> <<[id |-> 1, v |-> "a"]>>],
   affected_rows |-> 1,
   description |-> getOperationDescription("DELETE", "t", 1)]

PersistedLedgers == { << >>, <<PriorDelete>> }

NoCall ==
  [tool |-> "none", query |-> << >>, version_id |-> 0, denied |-> FALSE,
   backupFailed |-> FALSE, backupSaved |-> FALSE, executed |-> FALSE,
   undisturbed |-> FALSE, response |-> Response(FALSE, "", 0),
   trace |-> << >>, log |-> << >>]

Constructed(budget) ==
  /\ permissions \in [allowInsert : BOOLEAN, allowUpdate : BOOLEAN, allowDelete : BOOLEAN]
  /\ sessionId = 1
  /\ versionDB \in BOOLEAN
  /\ version_history \in IF versionDB THEN PersistedLedgers ELSE { << >> }
  /\ sqlite_sequence = Len(version_history)
  /\ mysql \in InitialTables
  /\ last = NoCall
  /\ tableAt = << >>
  /\ lastWriter = 0
  /\ remaining = budget
  /\ clock = [hrtime |-> 0, now |-> 0]
  /\ inflight = NoneInFlight

Init == Constructed(MaxCalls)

------------------------------------------------------------------------------
(* One tool call, from the request to the response.                         *)

Env(fault) ==
  [perm |-> permissions, sessionId |-> sessionId, versionDB |-> versionDB,
   fault |-> fault, clock |-> clock]

Bounded(c) ==
  /\ remaining > 0
  /\ BagCardinality(c.db.rows) <= MaxRows
  /\ c.db.autoInc <= MaxId + 1

\* the ids this call appended to the ledger
Appended(c) == {c.vh[i].id : i \in (Len(version_history) + 1)..Len(c.vh)}

Finish(tool, query, version_id, o) ==
  /\ Bounded(o.c)
  /\ mysql' = o.c.db
  /\ version_history' = o.c.vh
  /\ sqlite_sequence' = o.c.seq
  /\ last' = [tool |-> tool, query |-> query, version_id |-> version_id,
              denied |-> o.denied, backupFailed |-> o.backupFailed,
              backupSaved |-> o.backupSaved, executed |-> o.executed,
              undisturbed |-> (tool = "mysql_rollback_to_version"
                               /\ lastWriter = version_id),
              response |-> o.response, trace |-> o.c.trace, log |-> o.c.log]
  /\ tableAt' = tableAt @@ [id \in Appended(o.c) |-> mysql]
  /\ lastWriter' =
       IF tool # "mysql_rollback_to_version" /\ o.executed /\ Appended(o.c) # {}
       THEN CHOOSE id \in Appended(o.c) : TRUE
       ELSE IF o.c.db # mysql THEN 0
       ELSE lastWriter
  /\ remaining' = remaining - 1
  /\ UNCHANGED <<permissions, sessionId, versionDB, inflight>>

Start == Ctx(mysql, version_history, sqlite_sequence)

Query(query, fault) ==
  Finish("mysql_query", query, 0, handleQuery(Start, Env(fault), query))

CreateTable(schema, fault) ==
  Finish("mysql_create_table", <<"CREATE", "TABLE", "t", schema>>, 0,
         handleCreateTable(Start, Env(fault), "t", schema))

InsertData(value, fault) ==
  Finish("mysql_insert_data", insertSQLOf("t"), 0,
         handleInsertData(Start, Env(fault), "t", value))

ShowTables(fault) ==
  Finish("mysql_show_tables", << >>, 0, handleShowTables(Start, Env(fault)))

RollbackToVersion(version_id, fault) ==
  Finish("mysql_rollback_to_version", << >>, version_id,
         handleRollbackToVersion(Start, Env(fault), version_id))

ListVersions(args) ==
  Finish("mysql_list_versions", << >>, 0, handleListVersions(Start, Env("none"), args))

ClearVersionHistory(args) ==
  Finish("mysql_clear_version_history", << >>, 0,
         handleClearVersionHistory(Start, Env("none"), args))

\* the time between the starts of two calls
Elapse(ticks) ==
  clock' = [hrtime |-> clock.hrtime + ticks, now |-> clock.now + ticks]

\* calls one millisecond apart
Next ==
  \/ \E query \in Queries, fault \in Faults :
       Query(query, fault) /\ Elapse(TicksPerMs)
  \/ \E schema \in {SCHEMA_KEYED, SCHEMA_PLAIN}, fault \in Faults :
       CreateTable(schema, fault) /\ Elapse(TicksPerMs)
  \/ \E value \in {"a", ISO_T}, fault \in Faults :
       InsertData(value, fault) /\ Elapse(TicksPerMs)
  \/ \E fault \in {"none", "connect", "execute"} :
       ShowTables(fault) /\ Elapse(TicksPerMs)
  \/ \E version_id \in 1..(MaxCalls + 1), fault \in {"none", "connect", "ledger"} :
       RollbackToVersion(version_id, fault) /\ Elapse(TicksPerMs)

Spec == Init /\ [][Next]_vars

\* Runs one call longer in which every permission is granted, the ledger
\* starts empty and nothing fails.
InitGranted ==
  /\ Constructed(MaxCalls + 1)
  /\ permissions = [allowInsert |-> TRUE, allowUpdate |-> TRUE, allowDelete |-> TRUE]
  /\ versionDB
  /\ version_history = << >>

NextGranted ==
  \/ \E query \in Queries : Query(query, "none") /\ Elapse(TicksPerMs)
  \/ \E schema \in {SCHEMA_KEYED, SCHEMA_PLAIN} :
       CreateTable(schema, "none") /\ Elapse(TicksPerMs)
  \/ \E value \in {"a", ISO_T} : InsertData(value, "none") /\ Elapse(TicksPerMs)
  \/ ShowTables("none") /\ Elapse(TicksPerMs)
  \/ \E version_id \in 1..(MaxCalls + 1) :
       RollbackToVersion(version_id, "none") /\ Elapse(TicksPerMs)

SpecGranted == InitGranted /\ [][NextGranted]_vars

\* Restores after writes, every permission granted and nothing failing; the
\* DELETE statements include one that removes the row with the lowest id.
RestoreQueries ==
  { Q_DeleteAll, Q_DeleteFirst, Q_DeleteNoted, Q_UpdateAll, Q_Insert2, Q_Drop }

NextRestore ==
  \/ \E query \in RestoreQueries : Query(query, "none") /\ Elapse(TicksPerMs)
  \/ InsertData("a", "none") /\ Elapse(TicksPerMs)
  \/ \E version_id \in 1..(MaxCalls + 1) :
       RollbackToVersion(version_id, "none") /\ Elapse(TicksPerMs)

\* the tables of the other runs, and one without a key holding a single row
InitRestore ==
  /\ permissions = [allowInsert |-> TRUE, allowUpdate |-> TRUE, allowDelete |-> TRUE]
  /\ sessionId = 1
  /\ versionDB = TRUE
  /\ version_history = << >>
  /\ sqlite_sequence = 0
  /\ mysql \in InitialTables \cup { Table(FALSE, <<[id |-> 2, v |-> "a"]>>, 1) }
  /\ last = NoCall
  /\ tableAt = << >>
  /\ lastWriter = 0
  /\ remaining = MaxCalls + 1
  /\ clock = [hrtime |-> 0, now |-> 0]
  /\ inflight = NoneInFlight

SpecRestore == InitRestore /\ [][NextRestore]_vars

\* The ledger tools.  Calls start any number of ticks apart, and the
\* high-resolution timer is ahead of the wall clock's millisecond by any
\* number of ticks.
ListArgs ==
  [session_only : BOOLEAN]
    \cup [limit : {-1, 0, 1, 2}, session_only : BOOLEAN]

ClearArgs == [confirm : BOOLEAN, session_only : BOOLEAN]

InitLedger ==
  /\ permissions = [allowInsert |-> TRUE, allowUpdate |-> TRUE, allowDelete |-> TRUE]
  /\ sessionId = 1
  /\ versionDB \in BOOLEAN
  /\ version_history \in IF versionDB THEN PersistedLedgers ELSE { << >> }
  /\ sqlite_sequence = Len(version_history)
  /\ mysql = Table(TRUE, <<[id |-> 1, v |-> "a"], [id |-> 2, v |-> "a"]>>, 3)
  /\ last = NoCall
  /\ tableAt = << >>
  /\ lastWriter = 0
  /\ remaining = MaxCalls + 1
  /\ clock \in [hrtime : 0..(TicksPerMs - 1), now : {0}]
  /\ inflight = NoneInFlight

NextLedger ==
  \/ \E ticks \in 1..TicksPerMs : InsertData("a", "none") /\ Elapse(ticks)
  \/ \E ticks \in 1..TicksPerMs : Query(Q_DeleteId1, "none") /\ Elapse(ticks)
  \/ \E version_id \in 1..(MaxCalls + 1), fault \in {"none", "ledger"},
        ticks \in 1..TicksPerMs :
       RollbackToVersion(version_id, fault) /\ Elapse(ticks)
  \/ \E args \in ListArgs, ticks \in 1..TicksPerMs :
       ListVersions(args) /\ Elapse(ticks)
  \/ \E args \in ClearArgs, ticks \in 1..TicksPerMs :
       ClearVersionHistory(args) /\ Elapse(ticks)

SpecLedger == InitLedger /\ [][NextLedger]_vars

\* Sessions.  The server process is restarted between calls; the ledger file
\* stays, the new process draws a new session id.
MaxSessions == 2

\* the ledger table dropped and created anew when the process starts
initVersionControlAnew(vh) == << >>

\* lines 116-139: CREATE TABLE IF NOT EXISTS keeps the rows of the file
initVersionControl(vh) == vh

\* lines 46-49: randomUUID() gives an id no earlier process had
Restart ==
  /\ sessionId < MaxSessions
  /\ sessionId' = sessionId + 1
  /\ version_history' = initVersionControl(version_history)
  /\ last' = [NoCall EXCEPT !.tool = "restart"]
  /\ UNCHANGED <<permissions, versionDB, sqlite_sequence, mysql, tableAt,
                 lastWriter, remaining, inflight>>

\* an argument that may be omitted
Optional(field, values) == { << >> } \cup {[f \in {field} |-> v] : v \in values}

SessionListArgs ==
  {a @@ b @@ c @@ d : a \in Optional("limit", {1}),
                      b \in Optional("session_only", BOOLEAN),
                      c \in Optional("operation_type", {"delete", "INSERT"}),
                      d \in Optional("target_table", {"t", "u"})}

SessionClearArgs ==
  {a @@ b : a \in Optional("confirm", BOOLEAN),
            b \in Optional("session_only", BOOLEAN)}

InitSession ==
  /\ permissions = [allowInsert |-> TRUE, allowUpdate |-> TRUE, allowDelete |-> TRUE]
  /\ sessionId = 1
  /\ versionDB = TRUE
  /\ version_history \in PersistedLedgers
  /\ sqlite_sequence = Len(version_history)
  /\ mysql = Table(TRUE, <<[id |-> 1, v |-> "a"], [id |-> 2, v |-> "a"]>>, 3)
  /\ last = NoCall
  /\ tableAt = << >>
  /\ lastWriter = 0
  /\ remaining = MaxCalls + 1
  /\ clock = [hrtime |-> 0, now |-> 0]
  /\ inflight = NoneInFlight

NextSession ==
  \/ InsertData("a", "none") /\ Elapse(TicksPerMs)
  \/ Query(Q_DeleteId1, "none") /\ Elapse(TicksPerMs)
  \/ \E version_id \in 1..(MaxCalls + 1) :
       RollbackToVersion(version_id, "none") /\ Elapse(TicksPerMs)
  \/ \E args \in SessionListArgs : ListVersions(args) /\ Elapse(TicksPerMs)
  \/ \E args \in SessionClearArgs : ClearVersionHistory(args) /\ Elapse(TicksPerMs)
  \/ Restart /\ Elapse(TicksPerMs)

SpecSession == InitSession /\ [][NextSession]_vars

------------------------------------------------------------------------------
(* Tool calls in flight at once.  The dispatcher starts a handler for every *)
(* request as it arrives and nothing makes a request wait for the one       *)
(* before it, so handlers interleave at their awaits.  Every handler has    *)
(* the shape of handleShowTables: createConnection, then its statements in  *)
(* a try block, then connection.end() in the finally block.  A step below   *)
(* runs one call from one await to its next.  inflight.open holds the       *)
(* connections on which end() has not been called yet.                      *)

AtPc(c, pc) == inflight.calls[c].pc = pc

Moved(f, c, pc, connection, failed) ==
  [f EXCEPT !.calls[c] = [pc |-> pc, connection |-> connection, failed |-> failed]]

\* lines 59-65: the parameter check, then the await of mysql.createConnection
validated(f, c, valid) ==
  IF valid THEN Moved(f, c, "creating", 0, FALSE) ELSE Moved(f, c, "done", 0, TRUE)

Others == <<permissions, sessionId, versionDB, version_history, sqlite_sequence,
            mysql, last, tableAt, lastWriter, remaining, clock>>

\* lines 808-811 and 55-57: the request arrives, its handler calls
\* createConnection, which ends the connection in this.connection, if any
CreateConnectionEnter(c, valid) ==
  /\ AtPc(c, "idle")
  /\ inflight' =
       IF inflight.connection # 0
       THEN [Moved(inflight, c, "ending", 0, FALSE)
               EXCEPT !.open = @ \ {inflight.connection}]
       ELSE validated(inflight, c, valid)
  /\ UNCHANGED Others

\* lines 56-65: this.connection.end() has returned
CreateConnectionEnded(c, valid) ==
  /\ AtPc(c, "ending")
  /\ inflight' = validated(inflight, c, valid)
  /\ UNCHANGED Others

\* lines 67-76 and the handler's first statement (lines 921-924): the new
\* connection is stored in this.connection and returned to the handler
CreateConnectionReturn(c) ==
  /\ AtPc(c, "creating")
  /\ LET connection == inflight.made + 1 IN
       inflight' = [Moved(inflight, c, "executing", connection, FALSE)
                      EXCEPT !.connection = connection,
                             !.made = connection,
                             !.open = @ \cup {connection}]
  /\ UNCHANGED Others

\* a statement has returned.  The handler issues its next one (as handleQuery
\* does at lines 881 and 888), which the connection accepts only when end()
\* was not called on it; a refused statement throws.  With no statement left,
\* or after the throw, the finally block calls connection.end()
Executed(c, more) ==
  /\ AtPc(c, "executing")
  /\ LET connection == inflight.calls[c].connection IN
       inflight' =
         IF more /\ connection \in inflight.open
         THEN Moved(inflight, c, "executing2", connection, FALSE)
         ELSE [Moved(inflight, c, "closing", connection, more)
                 EXCEPT !.open = @ \ {connection}]
  /\ UNCHANGED Others

\* the handler's last statement has returned: finally { await connection.end() }
\* (lines 934-936)
ExecutedLast(c) ==
  /\ AtPc(c, "executing2")
  /\ inflight' =
       [Moved(inflight, c, "closing", inflight.calls[c].connection, FALSE)
          EXCEPT !.open = @ \ {inflight.calls[c].connection}]
  /\ UNCHANGED Others

\* connection.end() has returned and the handler returns its response
Returned(c) ==
  /\ AtPc(c, "closing")
  /\ inflight' = [inflight EXCEPT !.calls[c].pc = "done"]
  /\ UNCHANGED Others

InitInFlight ==
  /\ permissions = [allowInsert |-> TRUE, allowUpdate |-> TRUE, allowDelete |-> TRUE]
  /\ sessionId = 1
  /\ versionDB = TRUE
  /\ version_history = << >>
  /\ sqlite_sequence = 0
  /\ mysql = Table(TRUE, <<[id |-> 1, v |-> "a"], [id |-> 2, v |-> "a"]>>, 3)
  /\ last = NoCall
  /\ tableAt = << >>
  /\ lastWriter = 0
  /\ remaining = MaxCalls
  /\ clock = [hrtime |-> 0, now |-> 0]
  /\ inflight = NoneInFlight

NextInFlight ==
  \/ \E c \in InFlightCalls, valid \in BOOLEAN : CreateConnectionEnter(c, valid)
  \/ \E c \in InFlightCalls, valid \in BOOLEAN : CreateConnectionEnded(c, valid)
  \/ \E c \in InFlightCalls : CreateConnectionReturn(c)
  \/ \E c \in InFlightCalls, more \in BOOLEAN : Executed(c, more)
  \/ \E c \in InFlightCalls : ExecutedLast(c)
  \/ \E c \in InFlightCalls : Returned(c)

SpecInFlight == InitInFlight /\ [][NextInFlight]_vars

------------------------------------------------------------------------------
(* createBackup on its own: called with each operation the handlers pass,   *)
(* under every setting of the permission flags.                             *)

\* the calls of lines 881, 892, 1092 and 1128: operation, statement, and the
\* result of the INSERT when the call follows it
BackupCalls ==
  { [operation |-> "DELETE", query |-> Q_DeleteAll, insertResult |-> Null],
    [operation |-> "UPDATE", query |-> Q_UpdateAll, insertResult |-> Null],
    [operation |-> "DROP_TABLE", query |-> Q_Drop, insertResult |-> Null],
    [operation |-> "CREATE_TABLE", query |-> Q_Create, insertResult |-> Null],
    [operation |-> "INSERT", query |-> Q_Insert2,
     insertResult |-> [insertId |-> 1, affectedRows |-> 2]] }

CreateBackup(call, fault) ==
  LET returned(b) ==
        Outcome(b.c, Response(b.threw, "", 0), FALSE, b.threw, b.saved, FALSE)
  IN Finish("createBackup", call.query, 0,
            returned(createBackup(Start, Env(fault), call.operation, call.query, "t",
                                  call.insertResult, TRUE)))

NextBackup ==
  \E call \in BackupCalls, fault \in {"none", "snapshot", "ledger"} :
    CreateBackup(call, fault) /\ Elapse(TicksPerMs)

SpecBackup == Init /\ [][NextBackup]_vars

------------------------------------------------------------------------------
(* Properties.  Each reads the last call: what it issued to MySQL and to    *)
(* the ledger (last.trace), its response, and the table and ledger it left. *)

WriteTools == {"mysql_query", "mysql_create_table", "mysql_insert_data"}

Trace == DOMAIN last.trace

\* event i is a data- or schema-modifying statement issued to MySQL
Modifying(i) == last.trace[i].ev = "sql" /\ last.trace[i].st.k \in ModifyingKinds

\* event i is a statement of createBackup's snapshot
Snapshot(i) == last.trace[i].ev = "sql" /\ last.trace[i].st.k \in {"SELECT", "SHOWCREATE"}

\* event i is a ledger append
Append_(i) == last.trace[i].ev = "append"

Version(id) == Lookup(version_history, id)[1]

\* the last call restored, successfully, a version of one of the types,
\* recorded in this run, whose statement was the latest change to the table
RestoreOf(types) ==
  /\ last.tool = "mysql_rollback_to_version"
  /\ ~last.response.isError
  /\ last.undisturbed
  /\ last.version_id \in DOMAIN tableAt
  /\ Version(last.version_id).operation_type \in types

SameRows(d, e) == d.exists = e.exists /\ d.rows = e.rows

\* C1: with all three permission flags false, no call of any tool issues a
\* data- or schema-modifying statement to MySQL, whatever the ledger held
\* when the server started.
C1_ReadOnlyIssuesNoWrite ==
  NoWritePermission(permissions) => \A i \in Trace : ~Modifying(i)

\* C2: through the three write tools, a statement of a class executes only
\* when the flag of its class is true (delete: DELETE, DROP, TRUNCATE;
\* update: UPDATE; insert: INSERT, CREATE); a denied call returns an error,
\* opens no connection and appends nothing to the ledger.
C2_FlagDisablesItsClass ==
  last.tool \in WriteTools =>
    /\ \A i \in Trace :
         (Modifying(i) /\ last.trace[i].ok) =>
           /\ last.trace[i].st.k \in {"DELETE", "DROP", "TRUNCATE"}
                => permissions.allowDelete
           /\ last.trace[i].st.k = "UPDATE" => permissions.allowUpdate
           /\ last.trace[i].st.k \in {"INSERT", "CREATE"} => permissions.allowInsert
    /\ last.denied => last.response.isError /\ last.trace = << >>

\* C3: when some write permission is on and a modifying statement executed
\* successfully through a write tool (and no backup step failed), the ledger
\* holds a record of the current session with that statement's SQL text.
C3_EveryWriteIsRecorded ==
  ( /\ last.tool \in WriteTools
    /\ ~NoWritePermission(permissions)
    /\ last.executed
    /\ ~last.backupFailed
    /\ \E i \in Trace : Modifying(i) /\ last.trace[i].ok )
  => \E j \in DOMAIN version_history :
       /\ version_history[j].session_id = sessionId
       /\ version_history[j].sql_query = last.query

\* C4: restoring the version of a DELETE or UPDATE whose statement was the
\* latest change to the table leaves the table with exactly the rows it had
\* before the statement ran.
C4_DeleteUpdateRoundTrip ==
  RestoreOf({"DELETE", "UPDATE"}) => SameRows(mysql, tableAt[last.version_id])

\* C5: a successful rollback to a version after which later operations were
\* recorded on the same table leaves the table as it was just before that
\* version's operation ran.
C5_RollbackToAnyVersion ==
  ( /\ last.tool = "mysql_rollback_to_version"
    /\ ~last.response.isError
    /\ last.version_id \in DOMAIN tableAt
    /\ \E j \in DOMAIN version_history :
         /\ version_history[j].id > last.version_id
         /\ version_history[j].operation_type # "ROLLBACK"
         /\ version_history[j].target_table = Version(last.version_id).target_table )
  => SameRows(mysql, tableAt[last.version_id])

\* C6: in a write call, a DELETE, UPDATE or DROP_TABLE record is appended
\* after a completed snapshot statement and before any modifying statement
\* is issued; an INSERT or CREATE_TABLE record is appended only after the
\* modifying statement succeeded, and nothing is modified after it.
C6_WritePathOrdering ==
  last.tool \in WriteTools =>
    /\ \A i \in Trace, j \in Trace : (Snapshot(i) /\ Modifying(j)) => i < j
    /\ \A i \in Trace :
         Append_(i) =>
           /\ Version(last.trace[i].id).operation_type \in {"DELETE", "UPDATE", "DROP_TABLE"}
                => /\ \A j \in 1..i : ~Modifying(j)
                   /\ \E j \in 1..i : Snapshot(j) /\ last.trace[j].ok
           /\ Version(last.trace[i].id).operation_type \in {"INSERT", "CREATE_TABLE"}
                => /\ \E j \in 1..i : Modifying(j) /\ last.trace[j].ok
                   /\ \A j \in i..Len(last.trace) : ~Modifying(j) /\ ~Snapshot(j)

\* a DELETE through mysql_query: snapshot, append, then the DELETE succeeded
C6_Witness ==
  /\ last.tool = "mysql_query"
  /\ last.executed
  /\ \E i \in Trace, j \in Trace :
       /\ i < j
       /\ Append_(i)
       /\ Version(last.trace[i].id).operation_type = "DELETE"
       /\ Modifying(j) /\ last.trace[j].ok /\ last.trace[j].affectedRows > 0

\* C7: when a backup step fails in a write call, the user's statement is
\* still issued exactly once, and if MySQL accepted it the call returns its
\* normal result, not an error; nothing else modifies the database.
C7_BackupNeverBlocksWrite ==
  (last.tool \in WriteTools /\ last.backupFailed) =>
    /\ Cardinality({i \in Trace : Modifying(i)}) = 1
    /\ \A i \in Trace :
         (Modifying(i) /\ last.trace[i].ok) =>
           ~last.response.isError /\ last.executed

\* a write whose backup failed and whose statement changed rows
C7_Witness ==
  /\ last.tool \in WriteTools
  /\ last.backupFailed
  /\ ~last.response.isError
  /\ \E i \in Trace :
       Modifying(i) /\ last.trace[i].ok /\ last.trace[i].affectedRows > 0

\* C8: when a backup step fails in a write call that executed, the response
\* carries a warning that the write is not protected by a history record.
C8_DegradationIsVisible ==
  (last.tool \in WriteTools /\ last.backupFailed /\ last.executed) =>
    Has(last.response, "warning")

\* C9: an INSERT record holds idRange [insertId, insertId + n - 1] exactly
\* when the executor's insertId is not 0; restoring an INSERT record with a
\* range issues one DELETE, by "id = ?" when start = end and by BETWEEN
\* otherwise, over that range, and issues nothing when there is no range.
C9_InsertIdRange ==
  /\ last.tool \in WriteTools =>
       \A i \in Trace :
         (Append_(i) /\ Version(last.trace[i].id).operation_type = "INSERT") =>
           \E j \in 1..i :
             /\ Modifying(j) /\ last.trace[j].ok
             /\ IF last.trace[j].insertId # 0
                THEN /\ Has(Version(last.trace[i].id).backup_data, "idRange")
                     /\ Version(last.trace[i].id).backup_data.idRange =
                          [start |-> last.trace[j].insertId,
                           end |-> last.trace[j].insertId
                                     + last.trace[j].affectedRows - 1]
                ELSE ~Has(Version(last.trace[i].id).backup_data, "idRange")
  /\ ( /\ last.tool = "mysql_rollback_to_version"
       /\ last.trace # << >>
       /\ Version(last.version_id).operation_type = "INSERT" ) =>
       IF Has(Version(last.version_id).backup_data, "idRange")
       THEN /\ Cardinality({i \in Trace : last.trace[i].ev = "sql"}) = 1
            /\ \A i \in Trace :
                 last.trace[i].ev = "sql" =>
                   /\ last.trace[i].st.k = "DELETEID"
                   /\ last.trace[i].st.lo =
                        Version(last.version_id).backup_data.idRange.start
                   /\ last.trace[i].st.hi =
                        Version(last.version_id).backup_data.idRange.end
                   /\ last.trace[i].st.form =
                        IF last.trace[i].st.lo = last.trace[i].st.hi
                        THEN "id = ?" ELSE "id BETWEEN ? AND ?"
       ELSE \A i \in Trace : last.trace[i].ev # "sql"

\* the restore of a two-row INSERT deleted its rows with one BETWEEN
C9_Witness ==
  /\ last.tool = "mysql_rollback_to_version"
  /\ ~last.response.isError
  /\ Version(last.version_id).operation_type = "INSERT"
  /\ Has(Version(last.version_id).backup_data, "idRange")
  /\ \E i \in Trace :
       /\ last.trace[i].ev = "sql"
       /\ last.trace[i].st.k = "DELETEID"
       /\ last.trace[i].st.lo < last.trace[i].st.hi
       /\ last.trace[i].affectedRows = 2

\* C10: restoring the version of a DROP TABLE whose statement was the
\* latest change leaves the table existing with exactly the rows it had; the
\* stored create statement runs before any row is inserted and every
\* backed-up row is inserted.
C10_DropTableRoundTrip ==
  RestoreOf({"DROP_TABLE"}) =>
    /\ SameRows(mysql, tableAt[last.version_id])
    /\ \A i \in Trace, j \in Trace :
         ( /\ last.trace[i].ev = "sql" /\ last.trace[i].st.k = "CREATE"
           /\ last.trace[j].ev = "sql" /\ last.trace[j].st.k = "INSERTROW" ) => i < j
    /\ Cardinality({i \in Trace : last.trace[i].ev = "sql"
                                    /\ last.trace[i].st.k = "INSERTROW"})
         = Len(Version(last.version_id).backup_data.data)

Rollback == "mysql_rollback_to_version"

\* this step is a restore of the version the call before it restored
\* successfully
SecondRestore ==
  /\ last.tool = Rollback
  /\ ~last.response.isError
  /\ last'.tool = Rollback
  /\ last'.version_id = last.version_id

\* C11: when a restore follows a successful restore of the same version id,
\* the second call either fails or leaves the table exactly as the first
\* call left it; it never adds a second copy of a restored row.
C11_RestoreTwiceNoDuplicate ==
  [][SecondRestore => (last'.response.isError \/ SameRows(mysql', mysql))]_vars

\* the response says that the inserted rows were deleted
SaysDeleted(response) ==
  /\ Has(response, "result")
  /\ response.result \in {"Deleted inserted row with id", "Deleted inserted rows with ids"}

\* C12: the second of two successive restores of the same INSERT version
\* completes without an error, removes no row, and its result reports no
\* row as deleted.
C12_SecondInsertRestoreReportsZero ==
  [][(SecondRestore /\ Version(last.version_id).operation_type = "INSERT")
       => /\ ~last'.response.isError
          /\ SameRows(mysql', mysql)
          /\ ~SaysDeleted(last'.response)]_vars

\* the ledger holds no record with this id, or the record has no payload
Unrestorable(id) ==
  \A i \in DOMAIN version_history :
    version_history[i].id = id => version_history[i].backup_data = Null

\* C13: a restore whose version id is not in the ledger, or whose record has
\* a null payload, returns an error, opens no MySQL connection, issues no
\* statement, and leaves the ledger and the table unchanged.
C13_UnrestorableChangesNothing ==
  [][(last'.tool = Rollback /\ Unrestorable(last'.version_id))
       => /\ last'.response.isError
          /\ last'.trace = << >>
          /\ UNCHANGED <<version_history, sqlite_sequence, mysql>>]_vars

\* a restore was asked of a ROLLBACK record and refused
C13_Witness ==
  /\ last.tool = Rollback
  /\ \E i \in DOMAIN version_history :
       /\ version_history[i].id = last.version_id
       /\ version_history[i].operation_type = "ROLLBACK"
  /\ last.response.isError
  /\ last.response.text = "Version has no backup data to restore."

\* the ROLLBACK record a restore of version id appends
IsRollbackRecordOf(rec, id) ==
  /\ rec.operation_type = "ROLLBACK"
  /\ rec.backup_data = Null
  /\ rec.session_id = sessionId
  /\ rec.sql_query = <<"ROLLBACK", "TO", "VERSION", NumTok(id)>>
  /\ rec.description = <<"Rollback to version", NumTok(id)>>

\* the call's trace has one ledger append, after every statement it issued
OneAppendAfterInverse(trace) ==
  /\ Cardinality({i \in DOMAIN trace : trace[i].ev = "append"}) = 1
  /\ \A i \in DOMAIN trace, j \in DOMAIN trace :
       (trace[i].ev = "sql" /\ trace[j].ev = "append") => i < j

\* C14: a restore reports success exactly when it appended one ROLLBACK
\* record (null payload, current session id, description and SQL text naming
\* the version id) after the statements of its inverse action; a restore
\* that reports failure appends nothing; the records the ledger held,
\* the restored one among them, are left as they were.
C14_RollbackIsAudited ==
  [][last'.tool = Rollback
       => /\ SubSeq(version_history', 1, Len(version_history)) = version_history
          /\ IF last'.response.isError
             THEN version_history' = version_history
             ELSE /\ Len(version_history') = Len(version_history) + 1
                  /\ IsRollbackRecordOf(version_history'[Len(version_history')],
                                        last'.version_id)
                  /\ OneAppendAfterInverse(last'.trace)]_vars

\* a restore issued statements, then appended its ROLLBACK record
C14_Witness ==
  /\ last.tool = Rollback
  /\ ~last.response.isError
  /\ \E i \in Trace : last.trace[i].ev = "sql"
  /\ IsRollbackRecordOf(version_history[Len(version_history)], last.version_id)

\* event i of the last call is a per-row statement of a restore
PerRow(i) ==
  last.trace[i].ev = "sql" /\ last.trace[i].st.k \in {"INSERTROW", "UPDATEID"}

\* the per-row statements of the last call that succeeded
RowsRestored == {i \in Trace : PerRow(i) /\ last.trace[i].ok}

\* C15: when a per-row statement of a restore fails after k >= 1 of them
\* succeeded, the result reports k as the number of rows restored.
C15_PartialSuccessReported ==
  ( /\ last.tool = Rollback
    /\ RowsRestored # {}
    /\ \E j \in Trace : PerRow(j) /\ ~last.trace[j].ok )
  => last.response.n = Cardinality(RowsRestored)

\* the last call restored, without an error, a version of this type
Restored(type) ==
  /\ last.tool = Rollback
  /\ ~last.response.isError
  /\ Version(last.version_id).operation_type = type

\* C16: a restore of an INSERT record without id range issues no statement
\* and its result says that manual deletion is required; the result of a
\* restore of an UPDATE record counts as restored only the rows for which
\* it issued an UPDATE, not the rows it skipped for lack of an id.
C16_UnreversiblePartsReported ==
  /\ ( Restored("INSERT") /\ ~Has(Version(last.version_id).backup_data, "idRange") )
       => /\ \A i \in Trace : last.trace[i].ev # "sql"
          /\ last.response.result = "INSERT rollback: Manual deletion may be required."
  /\ Restored("UPDATE")
       => last.response.n = Cardinality({i \in Trace : PerRow(i)})

\* the ids of the records a ledger holds
IdsOf(vh) == {vh[i].id : i \in DOMAIN vh}

\* the ids the call of this step appended, as its trace has them
AppendedNow == {last'.trace[i].id : i \in {j \in DOMAIN last'.trace :
                                             last'.trace[j].ev = "append"}}

ClearTool == "mysql_clear_version_history"

\* C18: every step leaves a ledger record either exactly as it was or, when
\* the step is a clear, removed; no step changes a field of a record, and a
\* write, a listing or a restore removes none.
C18_RecordsImmutable ==
  [][\A i \in DOMAIN version_history :
       /\ \A j \in DOMAIN version_history' :
            version_history'[j].id = version_history[i].id
              => version_history'[j] = version_history[i]
       /\ last'.tool # ClearTool
            => \E j \in DOMAIN version_history' :
                 version_history'[j] = version_history[i]]_vars

\* a version was restored and its record is in the ledger with its payload,
\* followed by the ROLLBACK record of the restore
C18_Witness ==
  /\ last.tool = Rollback
  /\ ~last.response.isError
  /\ \E i \in DOMAIN version_history :
       /\ version_history[i].id = last.version_id
       /\ version_history[i].backup_data # Null
       /\ i < Len(version_history)

ListTool == "mysql_list_versions"

\* the most records a listing with these arguments may return: the limit
\* supplied (none for a limit below one), 50 when no limit is supplied
MostRows(args) ==
  IF Has(args, "limit") THEN Max(args.limit, 0) ELSE DefaultLimit

\* C19: a listing returns at most limit records for every integer limit
\* supplied, 0 and negative limits included, at most 50 when the limit is
\* omitted, and changes neither the ledger nor the table.
C19_ListAtMostLimit ==
  [][last'.tool = ListTool
       => /\ Len(last'.response.rows) <= MostRows(last'.response.args)
          /\ UNCHANGED <<version_history, sqlite_sequence, mysql>>]_vars

\* C20: a listing returns its records newest first: of any two records in
\* the result, the one appended later (the one with the greater id) comes
\* first, also when both were appended within one millisecond and when they
\* come from different sessions.
C20_ListNewestFirst ==
  last.tool = ListTool
    => \A i \in DOMAIN last.response.rows, j \in DOMAIN last.response.rows :
         i < j => last.response.rows[i].id > last.response.rows[j].id

\* the records of the ledger vh that another session created
OthersIn(vh) == {vh[i] : i \in {j \in DOMAIN vh : vh[j].session_id # sessionId}}

\* the call of this step did not pass session_only = false
NotAcrossSessions ==
  Has(last'.response, "args") => sessionOnlyOf(last'.response.args)

\* C22: a call that does not pass session_only = false lists no record of
\* another session, restores from none, and removes none.
C22_SessionIsolation ==
  [][NotAcrossSessions =>
       /\ last'.tool = ListTool
            => \A i \in DOMAIN last'.response.rows :
                 \A rec \in OthersIn(version_history) :
                   rec.id # last'.response.rows[i].id
       /\ (last'.tool = Rollback /\ last'.trace # << >>)
            => \A rec \in OthersIn(version_history) : rec.id # last'.version_id
       /\ last'.tool = ClearTool
            => OthersIn(version_history) \subseteq OthersIn(version_history')]_vars

\* C27: a record a write tool appends holds the text of the call's
\* statement, and that statement was executed successfully against MySQL; a
\* statement that fails or is never issued leaves no record.
C27_LedgerRecordsOnlyExecuted ==
  last.tool \in WriteTools
    => \A i \in Trace :
         Append_(i)
           => /\ \E j \in Trace : Modifying(j) /\ last.trace[j].ok
              /\ Version(last.trace[i].id).sql_query = last.query

Connects == {i \in Trace : last.trace[i].ev = "connect"}
Ends == {i \in Trace : last.trace[i].ev = "end"}

\* C26: a call issues its statements on a connection it opened itself and
\* closes that connection as its last step, on success and on error; a
\* finished call leaves no connection open.
C26_ConnectionLifecycle ==
  /\ Cardinality(Connects) <= 1
  /\ Cardinality(Ends) = Cardinality(Connects)
  /\ \A c \in Connects : \A e \in Ends : c < e /\ e = Len(last.trace)
  /\ \A i \in Trace :
       last.trace[i].ev = "sql" => \E c \in Connects : \E e \in Ends : c < i /\ i < e

\* a call whose statement failed closed its connection
C26_Witness ==
  /\ last.response.isError
  /\ \E i \in Trace : last.trace[i].ev = "sql" /\ ~last.trace[i].ok
  /\ Len(last.trace) \in Ends

\* C29: of two records of one session, the one appended later has a
\* timestamp that is not before the other's in the order in which the
\* timestamp texts compare.
C29_TimestampsNonDecreasing ==
  \A i \in DOMAIN version_history, j \in DOMAIN version_history :
    ( /\ i < j
      /\ version_history[i].session_id = version_history[j].session_id )
    => ~TimestampBefore(version_history[j].timestamp, version_history[i].timestamp)

Reversible == {"INSERT", "UPDATE", "DELETE", "CREATE_TABLE", "DROP_TABLE"}

\* C30: every record of a reversible type in the ledger, appended by a
\* capture that raised no error, has a payload, whatever the statement's
\* text.
C30_ReversibleRecordsHavePayload ==
  \A i \in DOMAIN version_history :
    version_history[i].operation_type \in Reversible
      => version_history[i].backup_data # Null

Min(a, b) == IF a <= b THEN a ELSE b

\* the listing's arguments ask for the current session only
SessionOnlyAsked(args) == ~Has(args, "session_only") \/ args.session_only = TRUE

\* the record passes the operation_type and target_table filters of args
PassesFilters(rec, args) ==
  /\ Has(args, "operation_type")
       => toUpperCaseTok(rec.operation_type) = toUpperCaseTok(args.operation_type)
  /\ Has(args, "target_table") => rec.target_table = args.target_table

\* the ids of the current session's records that pass the filters
WantedIds(args) ==
  {version_history[i].id : i \in {j \in DOMAIN version_history :
      /\ version_history[j].session_id = sessionId
      /\ PassesFilters(version_history[j], args)}}

ListedIds == {last.response.rows[i].id : i \in DOMAIN last.response.rows}

\* C21: with session_only true or omitted, a listing returns records of the
\* current session that pass the operation_type and target_table filters
\* and no other record, each once: all of them, or as many as the limit.
C21_SessionScopedListing ==
  ( /\ last.tool = ListTool
    /\ SessionOnlyAsked(last.response.args) )
  => /\ ListedIds \subseteq WantedIds(last.response.args)
     /\ Cardinality(ListedIds) = Len(last.response.rows)
     /\ Len(last.response.rows) =
          Min(Cardinality(WantedIds(last.response.args)),
              IF Has(last.response.args, "limit") THEN last.response.args.limit
              ELSE DefaultLimit)

\* a listing returned the current session's records and left out a record
\* of another session that passes the filters
C21_Witness ==
  /\ last.tool = ListTool
  /\ SessionOnlyAsked(last.response.args)
  /\ last.response.rows # << >>
  /\ \E i \in DOMAIN version_history :
       /\ version_history[i].session_id # sessionId
       /\ PassesFilters(version_history[i], last.response.args)

\* the records of the ledger vh, in order, that other sessions created
KeptFrom(vh) == SelectSeq(vh, LAMBDA rec : rec.session_id # sessionId)

\* the call of this step is a confirmed clear that raised no error
Cleared ==
  /\ last'.tool = ClearTool
  /\ ~last'.response.isError

\* C23: a clear with session_only true or omitted removes the current
\* session's records and leaves the others as they were; with
\* session_only = false it removes every record; the count it reports is
\* the number of records removed.
C23_ClearScope ==
  [][Cleared =>
       /\ version_history' =
            IF SessionOnlyAsked(last'.response.args)
            THEN KeptFrom(version_history) ELSE << >>
       /\ last'.response.n = Len(version_history) - Len(version_history')]_vars

\* a clear of the current session removed a record and kept another session's
C23_Witness ==
  /\ last.tool = ClearTool
  /\ ~last.response.isError
  /\ SessionOnlyAsked(last.response.args)
  /\ last.response.n > 0
  /\ version_history # << >>

\* the clear's arguments carry confirm = true
ConfirmGiven(args) == Has(args, "confirm") /\ args.confirm = TRUE

\* C24: a clear without confirm = true returns an error and leaves the
\* ledger as it was; a record leaves the ledger only in a clear called with
\* confirm = true.
C24_ClearNeedsConfirm ==
  [][/\ (last'.tool = ClearTool /\ ~ConfirmGiven(last'.response.args))
          => /\ last'.response.isError
             /\ version_history' = version_history
     /\ IdsOf(version_history) \ IdsOf(version_history') # {}
          => /\ last'.tool = ClearTool
             /\ ConfirmGiven(last'.response.args)]_vars

\* a clear without confirmation was refused while the session had a record
C24_Witness ==
  /\ last.tool = ClearTool
  /\ ~ConfirmGiven(last.response.args)
  /\ last.response.isError
  /\ \E i \in DOMAIN version_history : version_history[i].session_id = sessionId

\* the call of this step lists every session, unfiltered and without limit
ListsAll ==
  /\ last'.tool = ListTool
  /\ last'.response.args = [session_only |-> FALSE]

\* C25: a restart leaves every ledger record as it was and gives the process
\* a session id that no record carries; after it a default listing shows no
\* record of an earlier process, a listing with session_only = false shows
\* them all, and a restore by id of a record with a payload goes ahead.
C25_LedgerSurvivesRestart ==
  [][/\ last'.tool = "restart"
          => /\ version_history' = version_history
             /\ sessionId' # sessionId
             /\ \A i \in DOMAIN version_history :
                  version_history[i].session_id # sessionId'
     /\ (last'.tool = ListTool /\ SessionOnlyAsked(last'.response.args))
          => \A i \in DOMAIN last'.response.rows :
               \A rec \in OthersIn(version_history) :
                 rec.id # last'.response.rows[i].id
     /\ ListsAll
          => {last'.response.rows[i].id : i \in DOMAIN last'.response.rows}
               = IdsOf(version_history)
     /\ (last'.tool = Rollback /\ ~Unrestorable(last'.version_id)
                               /\ last'.version_id \in IdsOf(version_history))
          => last'.trace # << >>]_vars

\* after a restart, a record of the process before it was restored by id
C25_Witness ==
  /\ last.tool = Rollback
  /\ ~last.response.isError
  /\ sessionId > 1
  /\ \E i \in DOMAIN version_history :
       /\ version_history[i].id = last.version_id
       /\ version_history[i].session_id = sessionId - 1

InFlight(c) == inflight.calls[c].pc \in {"executing", "executing2"}

\* C28: while two tool calls are in flight, the connection a call obtained
\* from createConnection stays open until that call's own finally block
\* closes it: a call that has a statement pending, or is about to issue its
\* next one, holds a connection on which no other call has called end().
C28_NoCallLosesItsConnection ==
  \A c \in InFlightCalls : InFlight(c) => inflight.calls[c].connection \in inflight.open

\* the per-row UPDATE statements the last call issued, in the order issued
UpdatesIssued ==
  SelectSeq(last.trace, LAMBDA e : e.ev = "sql" /\ e.st.k = "UPDATEID")

\* C31: a restore of an UPDATE record issues, for every backed-up row that
\* carries an id (whatever its value, 0 included), exactly one UPDATE ... WHERE
\* id = that row's id, in payload order.
C31_UpdateInverse ==
  Restored("UPDATE") =>
    LET originalRows == Version(last.version_id).backup_data.originalRows IN
      /\ Len(UpdatesIssued) = Len(originalRows)
      /\ \A i \in 1..Len(originalRows) : UpdatesIssued[i].st.id = originalRows[i].id

\* the kind a statement has under the stated precedence, first match wins
KindByPrecedence(query) ==
  LET nq == toUpperCase(trim(query)) IN
  IF startsWith(nq, "DELETE") \/ includes1(nq, "TRUNCATE") THEN "DELETE"
  ELSE IF IsUpdateClass(nq) THEN "UPDATE"
  ELSE IF startsWith(nq, "INSERT") THEN "INSERT"
  ELSE IF includes2(nq, "CREATE", "TABLE") THEN "CREATE_TABLE"
  ELSE IF includes2(nq, "DROP", "TABLE") THEN "DROP_TABLE"
  ELSE "null"

\* the operation types of the records the last call appended
KindsRecorded ==
  {Version(last.trace[i].id).operation_type :
     i \in {j \in Trace : last.trace[j].ev = "append"}}

\* C32: a statement submitted through mysql_query that executed, with some
\* write permission on and no backup step failing, is recorded under the kind
\* the precedence gives it (DELETE or TRUNCATE: DELETE; UPDATE or ALTER:
\* UPDATE; INSERT: INSERT; CREATE TABLE: CREATE_TABLE; DROP TABLE:
\* DROP_TABLE), and gets no record when it has no kind.
C32_ClassificationPrecedence ==
  ( /\ last.tool = "mysql_query"
    /\ ~NoWritePermission(permissions)
    /\ versionDB
    /\ last.executed
    /\ ~last.backupFailed )
  => KindsRecorded = IF KindByPrecedence(last.query) = "null" THEN {}
                     ELSE {KindByPrecedence(last.query)}

\* the rows the statement of the last call touched, by the kind of its record:
\* the executor's affected-row count of the statement for DELETE, UPDATE and
\* INSERT, the rows the table held for DROP_TABLE, 0 otherwise
RowsTouched(rec) ==
  IF rec.operation_type \in {"DELETE", "UPDATE", "INSERT"}
  THEN LET i == CHOOSE j \in Trace : Modifying(j) IN last.trace[i].affectedRows
  ELSE IF rec.operation_type = "DROP_TABLE"
  THEN BagCardinality(tableAt[rec.id].rows)
  ELSE 0

\* C33: the affected_rows of a record a call appended equals the number of
\* rows its statement actually touched, when the statement executed.
C33_AffectedRowsAreRowsTouched ==
  last.executed =>
    \A i \in Trace :
      last.trace[i].ev = "append" =>
        Version(last.trace[i].id).affected_rows = RowsTouched(Version(last.trace[i].id))

\* the call of createBackup that this step makes
BackupCalled(call) == last'.tool = "createBackup" /\ last'.query = call.query

\* this step appends nothing to the ledger and issues nothing
NothingDone == version_history' = version_history /\ last'.trace = << >>

\* this step appends exactly one record, of the given operation
OneRecordOf(operation) ==
  /\ Len(version_history') = Len(version_history) + 1
  /\ SubSeq(version_history', 1, Len(version_history)) = version_history
  /\ version_history'[Len(version_history')].operation_type = operation

\* C34: createBackup skips the capture, appends nothing and returns null
\* exactly when all three permission flags are false; with at least one flag
\* true, whichever, and no step of the backup failing, it appends exactly one
\* record for the operation it was called with and returns it.
C34_BackupShortCircuit ==
  [][\A call \in BackupCalls :
       BackupCalled(call) =>
         /\ NoWritePermission(permissions) =>
              NothingDone /\ ~last'.backupSaved /\ ~last'.backupFailed
         /\ (~NoWritePermission(permissions) /\ ~last'.backupFailed) =>
              OneRecordOf(call.operation) /\ last'.backupSaved]_vars

\* createBackup was called with only the insert flag on for a DELETE, and
\* recorded it
C34_Witness ==
  /\ last.tool = "createBackup"
  /\ last.query = Q_DeleteAll
  /\ permissions = [allowInsert |-> TRUE, allowUpdate |-> FALSE, allowDelete |-> FALSE]
  /\ last.backupSaved
  /\ version_history # << >>
  /\ version_history[Len(version_history)].operation_type = "DELETE"

====
